---- MODULE Spec2Model ----
(***************************************************************************)
(* A model of the client-side cache synchronisation core of                *)
(* supabase-swr-entities: the Collection Cache hook (useEntities), the     *)
(* entity helpers it calls (useCreateEntity / useUpdateEntity /            *)
(* useDeleteEntity / useMutateEntity) and the Peer Mesh Transport          *)
(* (usePeers).                                                             *)
(*                                                                         *)
(* The hooks sit on the SWR cache.  What the model says about a cache key  *)
(* (the displayed data, the committed backup _c, the mutation timestamps   *)
(* that make a response lose a race) is the behaviour of swr >= 2.2's      *)
(* mutate as the hooks call it: with optimisticData, populateCache,        *)
(* revalidate: false and the default rollbackOnError / throwOnError.       *)
(***************************************************************************)
EXTENDS Integers, Sequences, FiniteSets, TLC

\* ---------------------------------------------------------------- bounds
MaxId  == 2      \* entity ids are 1..MaxId
MaxVal == 2      \* an entity's content is one of 1..MaxVal
MaxOps == 2      \* mutation calls that may be awaiting their response at once
MaxCalls   == 2  \* mutation calls made in one run
MaxFetches == 2  \* revalidations begun in one run
MaxPeers   == 2  \* remote peers that may appear in the room
MaxConns   == 3  \* Connection objects created in one run
MaxMsgs    == 2  \* messages received in one run
MaxTimers  == 4  \* 10-second timers pending at once
MaxSends   == 1  \* sendData calls in one run
MaxSignals == 1  \* realtime signals received in one run
MaxTicks      == 4  \* 60-second ticks in one run
MaxTeardowns  == 1  \* teardowns of the mesh in one run
MaxLifeEvents == 4  \* events of a session that is torn down later
MaxEvents  == 6  \* network, timer and roster events in one run
MaxParams  == 2  \* entries in a params object
MaxRows    == 3  \* rows in the table behind the infinite collection
MaxSize    == 3  \* pages asked of the infinite collection
InfLimit   == 1  \* the limit in the params of the infinite collection
MaxCount   == 25  \* rows that match a collection GET
BigCount   == 400 \* rows of a table larger than any page
SmallLimit == 1  \* the limit in the params of a collection that has params

PeerIds == 1..MaxPeers
ConnIds == 1..MaxConns
MsgIds  == 1..MaxMsgs
Ids    == 1..MaxId
Vals   == 1..MaxVal
OpIds  == 1..MaxOps

\* ------------------------------------------------------------- constants
Null            == "null"  \* the JavaScript value null (undefined where they are not told apart)
DefaultLimit    == 100   \* the limit the server reports when none is asked for
CountUndefined  == -1    \* stands for the JavaScript value undefined of count

VARIABLES
    table,      \* TRUE: useEntities got a table name; FALSE: table is null
    hasFilter,  \* TRUE: params holds keys other than lang (a filter and limit: SmallLimit)
    db,         \* the server's table: db[i] = 0 (no row) or the row's content
    pageData,   \* the SWR state.data of the collection's key
    pageC,      \* the SWR state._c of that key (the committed backup)
    mutBusy,    \* MUTATION[key][1] === 0: a mutation of the key has begun and not ended
    fetch,      \* "idle", or a revalidation in flight: "valid" / "stale"
    dirty,      \* the page changed since the child propagation effect last ran
    ops,        \* ops[o]: a create / update / delete awaiting its remote call
    result,     \* what the mutation call that returned last gave its caller
    slots,      \* slots[k]: the SWR state.data of an Entity Cache key
    slotsC,     \* slotsC[k]: the SWR state._c of that key
    hookData,   \* the `data` the update callback closed over when it was created
    calls,      \* mutation calls made so far (bounded by MaxCalls)
    fetches,    \* revalidations begun so far (bounded by MaxFetches)
    signals,    \* realtime signals received so far (bounded by MaxSignals)
    \* ---- usePeers
    wildcard,            \* TRUE: allowedUsers = ["*"]; FALSE: allowedUsers = ["u1"]
    peersLoaded,         \* FALSE: `peers` is undefined (the roster is not fetched yet)
    peers,               \* the ids of the remote Peer rows in `peers` (the roster)
    conns,               \* every DataConnection object created so far
    connectionsRef,      \* connectionsRef.current: the active set (connection ids)
    connectionAttempts,  \* connectionAttempts.current: the attempts set (peer ids)
    timers,              \* the pending 10-second attempt timeouts, oldest first
    dataQueue,           \* the dataQueue state: <<message, connection, connection.peer>> items
    effQueue,            \* the dataQueue the last run of the connection effect closed over
    listening,           \* peer.on("connection", inboundConnection) is registered
    needRender,          \* a state update or forceUpdate awaits its render
    peersChanged,        \* `peers` changed since the connection effect's deps were taken
    connRefChanged,      \* connectionsRef.current changed since those deps were taken
    nmsgs,               \* messages received so far (bounded by MaxMsgs)
    delivered,           \* delivered[m]: how often onData (in useEntities: a refetch) was called with message m
    msgPeer,             \* msgPeer[m]: the peer message m came from (0: not received)
    rejected,            \* connections the data queue handler refused as unauthorized
    closeEv,             \* peers a connection to which closed or errored since the last tick
    messageHistory,      \* messageHistory.current: payloads sent in the last 10 seconds
    sent,                \* <<payload, connection, peer>>: connection.send(payload) was called
    nsends,              \* sendData calls so far (bounded by MaxSends)
    rPeers,              \* the roster the callbacks of the last render resolve peers in
    effPeers,            \* the roster the last run of the connection effect closed over
    events,              \* network, timer and roster events so far (bounded by MaxEvents)
    msgConn,             \* msgConn[m]: the connection message m arrived on (0: not received)
    held,                \* messages received while their sender was not in the roster
    sentRoster,          \* sentRoster[m]: the peers in the roster when payload m was sent
    \* ---- apiPath and the room name
    pathIn,     \* <<table, id, params>> of the last apiPath call
    path,       \* what that call returned
    rTable,     \* the table useEntities was rendered with last
    rParams,    \* the params of that render
    rRoomOpt,   \* realtimeOptions.room of that render
    room,       \* the memoised room
    memoDeps,   \* the dependencies the memoised room was computed for
    rtOpts,     \* realtimeOptions.enabled and .provider of that render
    rtMesh,     \* usePeers runs enabled with a room: a Peer is created, the roster fetched
    rtChannel,  \* the name of the channel the Supabase Realtime effect subscribed to
    srvEvent,   \* the last sendRealtime of the server: its table, event, payload, room
    \* ---- useInfiniteEntities
    iRows,      \* the ids of the server's rows, in the order the server lists them
    iPages,     \* the SWR state.data of the infinite key: the pages loaded
    iSize,      \* the size of useSWRInfinite: how many pages are asked for
    iOp,        \* the create awaiting its remote call
    iKey,       \* the page index getKey was called with last, and the key it returned
    \* ---- the collection GET handler and requestAPI
    apiReq,     \* the last GET of a collection: the rows that match, params.limit, params.offset
    apiRes,     \* the body the handler answered it with
    apiCall,    \* the last requestAPI call: its method, the response, what the caller got
    pgKey,      \* the last page request of an Infinite Collection: index, key, what the server reads in it
    pgPage,     \* the answer to that request
    \* -- the life of the mesh session (usePeers)
    up,         \* enabled, with a room and an open Peer: the session is live
    peerId,     \* peer.id is set (PeerJS nulls it on 'disconnected' and on destroy)
    torn,       \* how often deletePeerOnUnload has run
    deletes,    \* deletePeer calls issued so far
    \* -- the local Peer row and its heartbeat (usePeers)
    clock,      \* 60-second ticks so far: the time `new Date()` gives
    srvRow,     \* updated_at of the local Peer's row in the backend, or NoRow
    cachedRow,  \* updated_at of that row in the cached `peers` page, or NoRow
    effRow,     \* the row in the `peers` the last connection effect closed over: "held", "absent", or "unset" before its first run
    effDue,     \* `peers` changed since the connection effect ran last
    beat        \* what keepPeerCurrent did last, and whether its remote call succeeded

cacheVars == <<table, hasFilter, db, pageData, pageC, mutBusy, fetch, dirty,
               ops, result, slots, slotsC, hookData, calls, fetches, signals>>

meshVars == <<wildcard, peersLoaded, peers, conns, connectionsRef,
              connectionAttempts, timers, dataQueue, effQueue, listening,
              needRender, peersChanged, connRefChanged, nmsgs, delivered, msgPeer,
              rejected, closeEv, messageHistory, sent, nsends, rPeers, effPeers,
              events, msgConn, held, sentRoster>>

keyVars == <<pathIn, path, rTable, rParams, rRoomOpt, room, memoDeps,
             rtOpts, rtMesh, rtChannel, srvEvent>>
infVars == <<iRows, iPages, iSize, iOp, iKey>>
apiVars == <<apiReq, apiRes, apiCall, pgKey, pgPage>>

lifeVars == <<up, peerId, torn, deletes>>

beatVars == <<clock, srvRow, cachedRow, effRow, effDue, beat>>

vars == <<cacheVars, meshVars, keyVars, infVars, apiVars, lifeVars, beatVars>>

\* ------------------------------------------------------------ data model
\* An entity snapshot.  srv tells the server's copy (with its server-assigned
\* fields) from a client-built optimistic copy.
Entity(i, v, s) == [k |-> "ent", id |-> i, val |-> v, srv |-> s]
SlotUndefined   == [k |-> "undefined", id |-> 0, val |-> 0, srv |-> FALSE]
SlotNull        == [k |-> "null", id |-> 0, val |-> 0, srv |-> FALSE]

\* A Collection Page; loaded = FALSE is the JavaScript value undefined.
NoPage == [loaded |-> FALSE, data |-> <<>>, count |-> 0, limit |-> 0,
           offset |-> 0, has_more |-> FALSE]

HasId(page, i) == \E n \in 1..Len(page.data) : page.data[n].id = i

\* Entity Cache keys.  The child propagation effect writes (table, id) with only
\* lang kept; the helpers write (table, id, params without limit/offset/order),
\* which is the same key exactly when params holds nothing but lang.
ChildKey(i) == <<i, "child">>
OpKey(i)    == IF hasFilter THEN <<i, "op">> ELSE <<i, "child">>
SlotKeys    == Ids \X {"child", "op"}

\* ------------------------------------------------------- pure functions
\* useEntities.removeEntity: filter the id out; count is read from
\* filteredEntities.count, a property arrays do not have.
removeEntity(data, i) ==
    [data EXCEPT !.data  = SelectSeq(data.data, LAMBDA e : e.id # i),
                 !.count = CountUndefined]

\* appendEntity without its push.
appendEntity_NoPush(data, newEntity) == removeEntity(data, newEntity.id)

\* appendEntity without the removal of the id.
appendEntity_NoFilter(data, newEntity) ==
    [data EXCEPT !.data  = Append(data.data, newEntity),
                 !.count = CountUndefined]

\* useEntities.appendEntity: remove the id, push the entity at the end; count
\* is read from filteredData.data.count.
appendEntity(data, newEntity) ==
    LET filteredData == removeEntity(data, newEntity.id)
    IN  [filteredData EXCEPT !.data  = Append(filteredData.data, newEntity),
                             !.count = CountUndefined]

\* The page the collection GET handler answers with for the server's rows.
RECURSIVE DbRows(_, _)
DbRows(d, i) ==
    IF i > MaxId THEN <<>>
    ELSE (IF d[i] # 0 THEN <<Entity(i, d[i], TRUE)>> ELSE <<>>) \o DbRows(d, i + 1)

\* parseInt(params.limit || 100): a collection with params asks for SmallLimit.
Limit == IF hasFilter THEN SmallLimit ELSE DefaultLimit

ServerPage(d) ==
    LET all  == DbRows(d, 1)
        rows == SubSeq(all, 1, IF Len(all) < Limit THEN Len(all) ELSE Limit)
    IN  [loaded |-> TRUE, data |-> rows, count |-> Len(all),
         limit |-> Limit, offset |-> 0,
         has_more |-> (0 + Len(rows) < Len(all))]

\* SWR: committedData = isUndefined(state._c) ? state.data : state._c
Committed(d, c) == IF c.loaded THEN c ELSE d
SlotCommitted(d, c) == IF c.k # "undefined" THEN c ELSE d

IdleOp == [st |-> "idle", kind |-> "none", id |-> 0, val |-> 0,
           committed |-> NoPage, shown |-> NoPage, raced |-> FALSE, alone |-> TRUE,
           slotCommitted |-> SlotUndefined, slotRaced |-> FALSE,
           slotShown |-> SlotUndefined]
NoResult == [done |-> FALSE, error |-> FALSE, remote |-> "none", alone |-> TRUE,
             kind |-> "none", id |-> 0]

InFlight == {o \in OpIds : ops[o].st = "wait"}

\* A new mutation of the main key stamps MUTATION[key][0]: every call still
\* awaiting its response has lost the race, and a revalidation in flight is stale.
Race(os) == [o \in OpIds |->
                IF os[o].st = "wait"
                THEN [os[o] EXCEPT !.raced = TRUE, !.alone = FALSE] ELSE os[o]]
Stale(f) == IF f = "valid" THEN "stale" ELSE f

\* The calls useEntity makes (the helper alone, no page) and the key a call's
\* helper mutates: useEntity passes its own params, here none but lang.
EntityKinds == {"entUpdate", "entDelete"}
KeyOf(op) == IF op.kind \in EntityKinds THEN ChildKey(op.id) ELSE OpKey(op.id)

\* A write to an Entity Cache key stamps that key: helper calls awaiting their
\* response on it have lost the race.
SlotRace(os, key) == [o \in OpIds |->
                IF os[o].st = "wait" /\ KeyOf(os[o]) = key
                THEN [os[o] EXCEPT !.slotRaced = TRUE] ELSE os[o]]

Dirty(new) == dirty \/ (new # pageData)

\* ------------------------------------------------------------------ Init
NoConn == [st |-> "none", peer |-> 0, inbound |-> FALSE, qsnap |-> <<>>,
           psnap |-> {}]

\* A connection that is closed: its listeners never run again.
ClosedConn == [NoConn EXCEPT !.st = "closed"]

\* The mesh state of a usePeers whose Peer instance has just opened.
MeshStart ==
    /\ peersLoaded = FALSE
    /\ peers = {}
    /\ conns = [c \in ConnIds |-> NoConn]
    /\ connectionsRef = {}
    /\ connectionAttempts = {}
    /\ timers = <<>>
    /\ dataQueue = <<>>
    /\ effQueue = <<>>
    /\ listening = FALSE
    /\ needRender = FALSE
    /\ peersChanged = FALSE
    /\ connRefChanged = FALSE
    /\ nmsgs = 0
    /\ delivered = [m \in MsgIds |-> 0]
    /\ msgPeer = [m \in MsgIds |-> 0]
    /\ rejected = {}
    /\ closeEv = {}
    /\ messageHistory = {}
    /\ sent = {}
    /\ nsends = 0
    /\ rPeers = {}
    /\ effPeers = {}
    /\ events = 0
    /\ msgConn = [m \in MsgIds |-> 0]
    /\ held = {}
    /\ sentRoster = [m \in 1..MaxSends |-> {}]

MeshIdle == wildcard = TRUE /\ MeshStart

\* No apiPath call but apiPath(null), and useEntities rendered with a null
\* table, no params and no room; no realtimeOptions, nothing broadcast yet.
KeyIdle ==
    /\ pathIn = <<"null", "null", [null |-> TRUE, entries |-> <<>>]>>
    /\ path = <<>>
    /\ rTable = "null"
    /\ rParams = [null |-> TRUE, entries |-> <<>>]
    /\ rRoomOpt = "null"
    /\ room = <<>>
    /\ memoDeps = <<"null", <<>>>>
    /\ rtOpts = [enabled |-> "undefined", provider |-> "undefined"]
    /\ rtMesh = FALSE
    /\ rtChannel = <<>>
    /\ srvEvent = [made |-> FALSE]

NoInfOp == [st |-> "idle", id |-> 0, val |-> 0, committed |-> <<>>]

\* useInfiniteEntities before its first page is loaded, on an empty table.
InfIdle ==
    /\ iRows = <<>>
    /\ iPages = <<>>
    /\ iSize = 1
    /\ iOp = NoInfOp
    /\ iKey = [index |-> -1, key |-> <<>>]

\* No collection GET handled and no requestAPI call made yet.
NoRow == -1

\* No request handled yet; a live session that has not been torn down; the
\* Peer has opened and the roster is loaded: no row yet, the connection effect
\* is about to run.
PeerIdle ==
    /\ apiReq = [made |-> FALSE]
    /\ apiRes = [made |-> FALSE]
    /\ apiCall = [made |-> FALSE]
    /\ pgKey = [index |-> -1]
    /\ pgPage = [made |-> FALSE]
    /\ up = TRUE /\ peerId = TRUE /\ torn = 0 /\ deletes = 0
    /\ clock = 0 /\ srvRow = NoRow /\ cachedRow = NoRow
    /\ effRow = "unset" /\ effDue = TRUE
    /\ beat = [did |-> "none", ok |-> TRUE]

CacheInit ==
    /\ table \in BOOLEAN
    /\ hasFilter \in BOOLEAN
    /\ hasFilter => table
    /\ db \in {[i \in Ids |-> 0], [i \in Ids |-> IF i = 1 THEN 1 ELSE 0]}
    /\ pageData = NoPage
    /\ pageC = NoPage
    /\ mutBusy = FALSE
    /\ fetch = "idle"
    /\ dirty = FALSE
    /\ ops = [o \in OpIds |-> IdleOp]
    /\ result = NoResult
    /\ slots = [k \in SlotKeys |-> SlotUndefined]
    /\ slotsC = [k \in SlotKeys |-> SlotUndefined]
    /\ hookData = NoPage
    /\ calls = 0
    /\ fetches = 0
    /\ signals = 0

\* ------------------------------------------------- fetch / revalidation
\* useCache -> useSWR(path, {fetcher: getAPI}): a revalidation begins.
FetchStart ==
    /\ table
    /\ fetch = "idle"
    /\ fetches < MaxFetches
    /\ fetches' = fetches + 1
    /\ fetch' = "valid"
    /\ UNCHANGED <<table, hasFilter, db, pageData, pageC, mutBusy, dirty, ops,
                   result, slots, slotsC, hookData, calls,
                   signals, meshVars, keyVars, infVars, apiVars, lifeVars, beatVars>>

\* The GET answers.  SWR drops the answer when a mutation of the key began or
\* ended after the request started, or is still in progress.
FetchDone ==
    /\ fetch # "idle"
    /\ fetch' = "idle"
    /\ LET new == IF fetch = "valid" /\ ~mutBusy THEN ServerPage(db) ELSE pageData
       IN  /\ pageData' = new
           /\ dirty' = Dirty(new)
    /\ UNCHANGED <<table, hasFilter, db, pageC, mutBusy, ops, result, slots,
                   slotsC, hookData, calls, fetches,
                   signals, meshVars, keyVars, infVars, apiVars, lifeVars, beatVars>>

\* A revalidation that is deduplicated: a request in flight is kept.
Revalidate_Deduped(f) == IF f = "idle" THEN "valid" ELSE f

\* The revalidator mutate() calls: FETCH[key] is deleted and a new request is
\* started; the answer of a request that was in flight is outdated and dropped.
Revalidate(f) == "valid"

\* A realtime signal: usePeers passes a message to onData, or the room's
\* channel broadcasts an event; both call the bound mutate().  On a null key
\* mutate() returns at once.
onData ==
    /\ signals < MaxSignals
    /\ signals' = signals + 1
    /\ IF table
       THEN /\ fetches < MaxFetches
            /\ fetches' = fetches + 1
            /\ fetch' = Revalidate(fetch)
       ELSE UNCHANGED <<fetch, fetches>>
    /\ UNCHANGED <<table, hasFilter, db, pageData, pageC, mutBusy, dirty, ops,
                   result, slots, slotsC, hookData, calls,
                   meshVars, keyVars, infVars, apiVars, lifeVars, beatVars>>

\* --------------------------------------------- SWR mutate, the sync part
\* mutate(asyncFn, {optimisticData, populateCache, revalidate: false}) up to
\* its await: stamp the key, write the optimistic page with the committed page
\* kept in _c, call the helper (which does the same on the entity's own key)
\* and suspend on the remote call.
BeginOp(o, kind, i, v, optimistic, slotOptimistic) ==
    LET committed == Committed(pageData, pageC)
        key       == OpKey(i)
        slotCom   == SlotCommitted(slots[key], slotsC[key])
    IN  /\ pageData' = optimistic
        /\ pageC' = committed
        /\ dirty' = Dirty(optimistic)
        /\ mutBusy' = TRUE
        /\ fetch' = Stale(fetch)
        /\ slots' = [slots EXCEPT ![key] = slotOptimistic]
        /\ slotsC' = [slotsC EXCEPT ![key] = slotCom]
        /\ ops' = [SlotRace(Race(ops), key) EXCEPT ![o] =
                     [st |-> "wait", kind |-> kind, id |-> i, val |-> v,
                      committed |-> committed, shown |-> pageData,
                      raced |-> FALSE, alone |-> (InFlight = {}),
                      slotCommitted |-> slotCom, slotRaced |-> FALSE,
                      slotShown |-> slots[key]]]
        /\ UNCHANGED result
        /\ UNCHANGED <<table, hasFilter, db, hookData, fetches,
                   signals, meshVars, keyVars, infVars, apiVars, lifeVars, beatVars>>

\* The bound mutate of a null key returns undefined at once: nothing is written,
\* no remote call is made, and the hook returns {entity: undefined} / {success: true}.
NullKeyCall(o, kind, i) ==
    /\ result' =
            [done |-> TRUE, error |-> FALSE, remote |-> "none", alone |-> (InFlight = {}),
             kind |-> kind, id |-> i]
    /\ UNCHANGED <<table, hasFilter, db, pageData, pageC, mutBusy, fetch, dirty,
                   ops, slots, slotsC, hookData, fetches,
                   signals, meshVars, keyVars, infVars, apiVars, lifeVars, beatVars>>

\* optimisticData throws a TypeError on an undefined page (data.data): the key
\* is already stamped, nothing is written, the hook's catch returns {error}.
ThrowingCall(o, kind, i) ==
    /\ mutBusy' = TRUE
    /\ fetch' = Stale(fetch)
    /\ ops' = Race(ops)
    /\ result' =
            [done |-> TRUE, error |-> TRUE, remote |-> "none", alone |-> (InFlight = {}),
             kind |-> kind, id |-> i]
    /\ UNCHANGED <<table, hasFilter, db, pageData, pageC, dirty, slots, slotsC,
                   hookData, fetches,
                   signals, meshVars, keyVars, infVars, apiVars, lifeVars, beatVars>>

\* useEntities.create: newEntity = {id: v4(), ...entity}; the id is the
\* caller's when the entity carries one.
create(o, i, v) ==
    /\ ops[o].st = "idle"
    /\ \A q \in OpIds : q < o => ops[q].st = "wait"
    /\ calls < MaxCalls
    /\ calls' = calls + 1
    /\ LET committed == Committed(pageData, pageC)
       IN  IF ~table THEN NullKeyCall(o, "create", i)
           ELSE IF ~committed.loaded THEN ThrowingCall(o, "create", i)
           ELSE BeginOp(o, "create", i, v,
                        appendEntity(committed, Entity(i, v, FALSE)),
                        Entity(i, v, FALSE))

\* useUpdateEntity's optimisticData: {updated_at, ...entity, ...fields} over the
\* committed snapshot of the entity's key (no id when that key holds no entity).
UpdateSlotOptimistic(i, v) ==
    LET cur == SlotCommitted(slots[OpKey(i)], slotsC[OpKey(i)])
    IN  IF cur.k = "ent" THEN Entity(cur.id, v, FALSE) ELSE Entity(0, v, FALSE)

\* useEntities.update: the entity is replaced through appendEntity; when the
\* id is not in the page the callback's own `data` is returned instead.
update(o, i, v) ==
    /\ ops[o].st = "idle"
    /\ \A q \in OpIds : q < o => ops[q].st = "wait"
    /\ calls < MaxCalls
    /\ calls' = calls + 1
    /\ LET committed == Committed(pageData, pageC)
       IN  IF ~table THEN NullKeyCall(o, "update", i)
           ELSE IF ~committed.loaded THEN ThrowingCall(o, "update", i)
           ELSE BeginOp(o, "update", i, v,
                        IF HasId(committed, i)
                        THEN appendEntity(committed, Entity(i, v, FALSE))
                        ELSE hookData,
                        UpdateSlotOptimistic(i, v))

\* useEntities.doDelete
doDelete(o, i) ==
    /\ ops[o].st = "idle"
    /\ \A q \in OpIds : q < o => ops[q].st = "wait"
    /\ calls < MaxCalls
    /\ calls' = calls + 1
    /\ LET committed == Committed(pageData, pageC)
       IN  IF ~table THEN NullKeyCall(o, "delete", i)
           ELSE IF ~committed.loaded THEN ThrowingCall(o, "delete", i)
           ELSE BeginOp(o, "delete", i, 0, removeEntity(committed, i), SlotNull)

\* ------------------------------------------- the remote call's response
\* What the remote call does to the server's table when it succeeds.
CanSucceed(op) ==
    CASE op.kind = "create" -> db[op.id] = 0
      [] op.kind \in {"update", "entUpdate"} -> db[op.id] # 0
      [] OTHER -> TRUE

DbAfter(op) ==
    CASE op.kind \in {"delete", "entDelete"} -> [db EXCEPT ![op.id] = 0]
      [] OTHER -> [db EXCEPT ![op.id] = op.val]

\* populateCache of create / update / doDelete, called by SWR with the result
\* and the committed page it saved when the mutation began.
populateCache(op, entity, currentData) ==
    IF op.kind = "delete" THEN removeEntity(currentData, op.id)
    ELSE appendEntity(currentData, entity)

\* SlotAfter without the rollback: the optimistic value stays after an error.
SlotAfter_NoRollback(op, ok) ==
    IF op.slotRaced \/ ~ok THEN slots[KeyOf(op)]
    ELSE IF op.kind \in {"delete", "entDelete"} THEN SlotNull
    ELSE Entity(op.id, op.val, TRUE)

\* SlotAfter with the key cleared, not rolled back, after an error.
SlotAfter_Cleared(op, ok) ==
    IF op.slotRaced THEN slots[KeyOf(op)]
    ELSE IF ~ok THEN SlotUndefined
    ELSE IF op.kind \in {"delete", "entDelete"} THEN SlotNull
    ELSE Entity(op.id, op.val, TRUE)

\* The helper's own mutate of the entity's key resolves: the server's entity
\* (null for a delete) is written, or the committed snapshot restored, unless
\* the key was written in between.
SlotAfter(op, ok) ==
    IF op.slotRaced THEN slots[KeyOf(op)]
    ELSE IF ~ok THEN op.slotCommitted
    ELSE IF op.kind \in {"delete", "entDelete"} THEN SlotNull
    ELSE Entity(op.id, op.val, TRUE)

\* PageAfter without the rollback: the optimistic page stays after an error.
PageAfter_NoRollback(op, ok) ==
    IF op.raced \/ ~ok THEN pageData
    ELSE populateCache(op, Entity(op.id, op.val, TRUE), op.committed)

\* The page after SWR's mutate resumes: nothing is written when another
\* mutation of the key began meanwhile; otherwise the committed page is
\* restored on an error and populateCache's page written on success.
PageAfter(op, ok) ==
    IF op.raced THEN pageData
    ELSE IF ~ok THEN op.committed
    ELSE populateCache(op, Entity(op.id, op.val, TRUE), op.committed)

Respond(o, ok) ==
    /\ ops[o].st = "wait"
    /\ ops[o].kind \notin EntityKinds
    /\ ok => CanSucceed(ops[o])
    /\ LET op  == ops[o]
           key == KeyOf(op)
           new == PageAfter(op, ok)
       IN  /\ db' = IF ok THEN DbAfter(op) ELSE db
           /\ slots' = [slots EXCEPT ![key] = SlotAfter(op, ok)]
           /\ slotsC' = [slotsC EXCEPT ![key] = IF op.slotRaced THEN @ ELSE SlotUndefined]
           /\ pageData' = new
           /\ pageC' = IF op.raced THEN pageC ELSE NoPage
           /\ mutBusy' = IF op.raced THEN mutBusy ELSE FALSE
           /\ fetch' = IF op.raced THEN fetch ELSE Stale(fetch)
           /\ dirty' = Dirty(new)
           /\ result' = [done |-> TRUE, error |-> ~ok,
                         remote |-> IF ok THEN "ok" ELSE "fail", alone |-> op.alone,
                         kind |-> op.kind, id |-> op.id]
           /\ ops' = [ops EXCEPT ![o] = IdleOp]
    /\ UNCHANGED <<table, hasFilter, hookData, calls, fetches,
                   signals, meshVars, keyVars, infVars, apiVars, lifeVars, beatVars>>

\* ------------------------------------------------ the realtime signal
EventTag(kind) ==
    CASE kind = "create" -> "create_entity"
      [] kind = "update" -> "update_entity"
      [] kind = "delete" -> "delete_entity"

\* The sendData calls of the create / update / doDelete that returned res:
\* the line after `await mutate(...)` is reached when mutate did not throw, and
\* sends when realtimeOptions.enabled && provider == "peerjs" && !listenOnly.
SentTags(res, opts) ==
    IF /\ res.done /\ res.kind \in {"create", "update", "delete"}
       /\ ~res.error
       /\ opts.enabled /\ opts.peerjs /\ ~opts.listenOnly
    THEN <<EventTag(res.kind)>>
    ELSE <<>>

\* ------------------------------------------------ useEntity's mutations
\* useUpdateEntity / useDeleteEntity with a null table: the helper returns
\* {error: "Entity not loaded"} before it touches anything.
EntityNotLoaded(kind, i) ==
    /\ result' =
            [done |-> TRUE, error |-> TRUE, remote |-> "none", alone |-> (InFlight = {}),
             kind |-> kind, id |-> i]
    /\ UNCHANGED <<table, hasFilter, db, pageData, pageC, mutBusy, fetch, dirty,
                   ops, slots, slotsC, hookData, fetches,
                   signals, meshVars, keyVars, infVars, apiVars, lifeVars, beatVars>>

\* The helper's mutate(path, fn, {optimisticData, revalidate: false}) up to its
\* await: the entity's key gets the optimistic value, _c the committed one.
BeginEntityOp(o, kind, i, v, slotOptimistic) ==
    LET key     == ChildKey(i)
        slotCom == SlotCommitted(slots[key], slotsC[key])
    IN  /\ slots' = [slots EXCEPT ![key] = slotOptimistic]
        /\ slotsC' = [slotsC EXCEPT ![key] = slotCom]
        /\ ops' = [SlotRace(ops, key) EXCEPT ![o] =
                     [st |-> "wait", kind |-> kind, id |-> i, val |-> v,
                      committed |-> NoPage, shown |-> NoPage,
                      raced |-> FALSE, alone |-> (InFlight = {}),
                      slotCommitted |-> slotCom, slotRaced |-> FALSE,
                      slotShown |-> slots[key]]]
        /\ UNCHANGED <<table, hasFilter, db, pageData, pageC, mutBusy, fetch,
                       dirty, result, hookData, fetches,
                       signals, meshVars, keyVars, infVars, apiVars, lifeVars, beatVars>>

\* {updated_at, ...entity, ...fields} over the committed snapshot of the key.
EntityOptimistic(i, v) ==
    LET cur == SlotCommitted(slots[ChildKey(i)], slotsC[ChildKey(i)])
    IN  IF cur.k = "ent" THEN Entity(cur.id, v, FALSE) ELSE Entity(0, v, FALSE)

\* useEntity(table, id).updateEntity(fields)
entityUpdate(o, i, v) ==
    /\ ops[o].st = "idle"
    /\ \A q \in OpIds : q < o => ops[q].st = "wait"
    /\ calls < MaxCalls
    /\ calls' = calls + 1
    /\ IF ~table THEN EntityNotLoaded("entUpdate", i)
       ELSE BeginEntityOp(o, "entUpdate", i, v, EntityOptimistic(i, v))

\* useEntity(table, id).deleteEntity(): optimisticData is null.
entityDelete(o, i) ==
    /\ ops[o].st = "idle"
    /\ \A q \in OpIds : q < o => ops[q].st = "wait"
    /\ calls < MaxCalls
    /\ calls' = calls + 1
    /\ IF ~table THEN EntityNotLoaded("entDelete", i)
       ELSE BeginEntityOp(o, "entDelete", i, 0, SlotNull)

\* The remote PATCH / DELETE of a useEntity call answers and the helper's mutate
\* resumes.
EntityRespond(o, ok) ==
    /\ ops[o].st = "wait"
    /\ ops[o].kind \in EntityKinds
    /\ ok => CanSucceed(ops[o])
    /\ LET op  == ops[o]
           key == KeyOf(op)
       IN  /\ db' = IF ok THEN DbAfter(op) ELSE db
           /\ slots' = [slots EXCEPT ![key] = SlotAfter(op, ok)]
           /\ slotsC' = [slotsC EXCEPT ![key] = IF op.slotRaced THEN @ ELSE SlotUndefined]
           /\ result' = [done |-> TRUE, error |-> ~ok,
                         remote |-> IF ok THEN "ok" ELSE "fail", alone |-> op.alone,
                         kind |-> op.kind, id |-> op.id]
           /\ ops' = [ops EXCEPT ![o] = IdleOp]
    /\ UNCHANGED <<table, hasFilter, pageData, pageC, mutBusy, fetch, dirty,
                   hookData, calls, fetches,
                   signals, meshVars, keyVars, infVars, apiVars, lifeVars, beatVars>>

\* useEntities.mutateEntity: mutate(prev => appendEntity(prev, entity), false).
\* A synchronous mutation: SWR calls the function with the committed page and
\* writes what it returns; on an undefined page the function throws and only the
\* key's timestamps change.
mutateEntity(i, v) ==
    /\ table
    /\ calls < MaxCalls
    /\ calls' = calls + 1
    /\ LET committed == Committed(pageData, pageC)
           new == IF committed.loaded
                  THEN appendEntity(committed, Entity(i, v, TRUE))
                  ELSE pageData
       IN  /\ pageData' = new
           /\ pageC' = IF committed.loaded THEN NoPage ELSE pageC
           /\ dirty' = Dirty(new)
    /\ mutBusy' = FALSE
    /\ fetch' = Stale(fetch)
    /\ ops' = Race(ops)
    /\ UNCHANGED <<table, hasFilter, db, result, slots, slotsC, hookData, fetches,
                   signals, meshVars, keyVars, infVars, apiVars, lifeVars, beatVars>>

\* ---------------------------------------------------- child propagation
\* mutateChild that keeps a snapshot the key already holds.
mutateChild_KeepExisting(sl, entity) ==
    IF sl[ChildKey(entity.id)].k = "ent" THEN sl
    ELSE [sl EXCEPT ![ChildKey(entity.id)] = entity]

\* useMutateEntity: mutate(apiPath(table, id, params), data, false) writes the
\* entity into its own key.
mutateChild(sl, entity) == [sl EXCEPT ![ChildKey(entity.id)] = entity]

RECURSIVE PropagateAll(_, _, _)
PropagateAll(sl, data, n) ==
    IF n > Len(data) THEN sl
    ELSE PropagateAll(mutateChild(sl, data[n]), data, n + 1)

RECURSIVE RaceAll(_, _, _)
RaceAll(os, data, n) ==
    IF n > Len(data) THEN os
    ELSE RaceAll(SlotRace(os, ChildKey(data[n].id)), data, n + 1)

RECURSIVE ClearAll(_, _, _)
ClearAll(sc, data, n) ==
    IF n > Len(data) THEN sc
    ELSE ClearAll([sc EXCEPT ![ChildKey(data[n].id)] = SlotUndefined], data, n + 1)

\* The effect "Mutate & precache all children entities on change": it runs
\* after a render in which `entities` changed.
Propagate ==
    /\ table
    /\ dirty
    /\ dirty' = FALSE
    /\ slots' = PropagateAll(slots, pageData.data, 1)
    /\ slotsC' = ClearAll(slotsC, pageData.data, 1)
    /\ ops' = RaceAll(ops, pageData.data, 1)
    /\ UNCHANGED <<table, hasFilter, db, pageData, pageC, mutBusy, fetch, result,
                   hookData, calls, fetches,
                   signals, meshVars, keyVars, infVars, apiVars, lifeVars, beatVars>>

\* A second useEntities subscription on the same table (other params, same
\* lang) receives the server's rows and its own effect writes them into the
\* same Entity Cache keys.
AltPropagate ==
    /\ table
    /\ fetches < MaxFetches
    /\ fetches' = fetches + 1
    /\ slots' = PropagateAll(slots, ServerPage(db).data, 1)
    /\ slotsC' = ClearAll(slotsC, ServerPage(db).data, 1)
    /\ ops' = RaceAll(ops, ServerPage(db).data, 1)
    /\ UNCHANGED <<table, hasFilter, db, pageData, pageC, mutBusy, fetch, dirty,
                   result, hookData, calls,
                   signals, meshVars, keyVars, infVars, apiVars, lifeVars, beatVars>>

\* The update callback is created again (its useCallback deps changed) and
\* closes over the data of that render.
RecreateCallbacks ==
    /\ table
    /\ calls = 0
    /\ hookData # pageData
    /\ hookData' = pageData
    /\ UNCHANGED <<table, hasFilter, db, pageData, pageC, mutBusy, fetch, dirty,
                   ops, result, slots, slotsC, calls, fetches,
                   signals, meshVars, keyVars, infVars, apiVars, lifeVars, beatVars>>

\* ------------------------------------------------------------------ Spec
Init == CacheInit /\ MeshIdle /\ KeyIdle /\ InfIdle /\ PeerIdle

Next ==
    \/ FetchStart
    \/ FetchDone
    \/ onData
    \/ \E o \in OpIds, i \in Ids, v \in Vals : create(o, i, v)
    \/ \E o \in OpIds, i \in Ids, v \in Vals : update(o, i, v)
    \/ \E o \in OpIds, i \in Ids : doDelete(o, i)
    \/ \E o \in OpIds, ok \in BOOLEAN : Respond(o, ok)
    \/ \E i \in Ids, v \in Vals : mutateEntity(i, v)
    \/ \E o \in OpIds, i \in Ids, v \in Vals : entityUpdate(o, i, v)
    \/ \E o \in OpIds, i \in Ids : entityDelete(o, i)
    \/ \E o \in OpIds, ok \in BOOLEAN : EntityRespond(o, ok)
    \/ Propagate
    \/ AltPropagate
    \/ RecreateCallbacks

Spec == Init /\ [][Next]_vars


\* ============================================================== usePeers
\* The user a remote peer's row carries: peer 1 is the allowed user's.
UserOf(p) == IF p = 1 THEN "u1" ELSE "u2"

\* An allow-list check that lets every user pass.
Allowed_Anyone(p) == TRUE

\* allowedUsers.includes("*") || allowedUsers.includes(peer.user_id)
Allowed(p) == wildcard \/ UserOf(p) = "u1"

\* An array, from the set of its elements (ascending).
RECURSIVE SeqOf(_)
SeqOf(S) ==
    IF S = {} THEN <<>>
    ELSE LET x == CHOOSE x \in S : \A y \in S : x <= y
         IN  <<x>> \o SeqOf(S \ {x})

\* The roster a closure resolves peers in matters only with a restricted
\* allow-list.
Snap(ps) == IF wildcard THEN {} ELSE ps

ActivePeers(ref, cs) == {cs[c].peer : c \in ref}

FreeConns(cs) == {c \in ConnIds : cs[c].st = "none"}

\* The timers handleConnection sets for the connections cseq: each clears the
\* connection's peer from the attempts set; own tells the timer set when the
\* connection was created from the ones set when it was handled again.
AttemptTimers(cseq, cs, own) ==
    [n \in 1..Len(cseq) |-> <<"attempt", cs[cseq[n]].peer, IF own THEN cseq[n] ELSE 0>>]

\* The connection object is dropped: a timer that was set for it still clears
\* its peer.
Disown(ts, cset) ==
    [n \in 1..Len(ts) |-> IF ts[n][3] \in cset THEN <<ts[n][1], ts[n][2], 0>> ELSE ts[n]]

\* Less than 10 seconds have passed since connection c was created.
Young(c) == \E n \in 1..Len(timers) : timers[n][3] = c

\* A filter that keeps every connection.
DropPeer_KeepAll(ref, cs, ps) == ref

\* The listeners of the connection to c's peer: every connection to that peer
\* leaves the active set, the peer leaves the attempts set.
DropPeer(ref, cs, ps) == {c \in ref : cs[c].peer \notin ps}

\* How often message m is among the items at positions idx of queue q.
RECURSIVE CountMsg(_, _, _)
CountMsg(q, idx, m) ==
    IF idx = {} THEN 0
    ELSE LET n == CHOOSE n \in idx : TRUE
         IN  (IF q[n][1] = m THEN 1 ELSE 0) + CountMsg(q, idx \ {n}, m)

Min(a, b) == IF a < b THEN a ELSE b

\* The `peers` collection page changes (first fetch, refetch, a row created or
\* deleted).
RosterChange(S) ==
    /\ events < MaxEvents
    /\ events' = events + 1
    /\ ~peersLoaded \/ S # peers
    /\ peersLoaded' = TRUE
    /\ peers' = S
    /\ peersChanged' = TRUE
    /\ needRender' = TRUE
    /\ UNCHANGED <<wildcard, conns, connectionsRef, connectionAttempts, timers,
                   dataQueue, effQueue, listening, connRefChanged, nmsgs,
                   delivered, msgPeer, rejected, closeEv, messageHistory, sent,
                   nsends, rPeers, effPeers>>
    /\ UNCHANGED <<msgConn, held, sentRoster>>
    /\ UNCHANGED <<cacheVars, keyVars, infVars, apiVars, lifeVars, beatVars>>

\* getPeer(connection) finds a row for the item <<message, connection, peer>>.
Resolvable(it) == peersLoaded /\ it[3] \in peers

\* One render and its effects: the data queue handler, then the connection
\* effect when one of its deps changed.  The cleanup of its last run comes
\* first (the interval and the 'connection' listener go); its body returns at
\* once when peer.id is null.
Render ==
    /\ needRender
    /\ LET q        == dataQueue
           resolved == {n \in 1..Len(q) : Resolvable(q[n])}
           refused  == {n \in resolved : ~Allowed(q[n][3])}
           toClose  == {q[n][2] : n \in refused}
           wasOpen  == {c \in toClose : conns[c].st = "open"}
           gone     == {conns[c].peer : c \in wasOpen}
           conns1   == [c \in ConnIds |->
                          IF c \in toClose /\ conns[c].st \in {"pending", "open"}
                          THEN ClosedConn
                          ELSE conns[c]]
           ref1     == DropPeer(connectionsRef, conns, gone)
           att1     == connectionAttempts \ gone
           depsEff  == peersLoaded /\ (peersChanged \/ connRefChanged)
           runEff   == depsEff /\ peerId
           cand     == IF runEff
                       THEN {p \in peers : /\ p \notin ActivePeers(ref1, conns1)
                                           /\ p \notin att1
                                           /\ Allowed(p)}
                       ELSE {}
           candSeq  == SeqOf(cand)
           freeSeq  == SeqOf(FreeConns(conns1))
           newIds   == {freeSeq[k] : k \in 1..Min(Len(candSeq), Len(freeSeq))}
           conns2   == [c \in ConnIds |->
                          IF c \in newIds
                          THEN LET k == CHOOSE k \in 1..Len(candSeq) : freeSeq[k] = c
                               IN  [st |-> "pending", peer |-> candSeq[k],
                                    inbound |-> FALSE, qsnap |-> q,
                                    psnap |-> Snap(peers)]
                          ELSE IF runEff /\ c \in ref1
                          THEN [conns1[c] EXCEPT !.qsnap = q, !.psnap = Snap(peers)]
                          ELSE conns1[c]]
           newTimers == IF runEff
                        THEN AttemptTimers(SeqOf(newIds), conns2, TRUE)
                                 \o AttemptTimers(SeqOf(ref1), conns2, FALSE)
                        ELSE <<>>
       IN  /\ Len(candSeq) <= Len(freeSeq)
           /\ Len(timers) + Len(newTimers) <= MaxTimers
           /\ dataQueue' = SelectSeq(q, LAMBDA it : ~Resolvable(it))
           /\ delivered' = [m \in MsgIds |->
                              Min(2, delivered[m] + CountMsg(q, resolved \ refused, m))]
           /\ rejected' = rejected \cup toClose
           /\ closeEv' = closeEv \cup gone
           /\ conns' = conns2
           /\ connectionsRef' = ref1
           /\ connectionAttempts' = att1 \cup cand
           /\ timers' = Disown(timers, toClose) \o newTimers
           /\ effQueue' = IF runEff THEN q ELSE effQueue
           /\ effPeers' = IF runEff THEN Snap(peers) ELSE effPeers
           /\ listening' = IF depsEff THEN peerId ELSE listening
           /\ rPeers' = Snap(IF peersLoaded THEN peers ELSE {})
           /\ needRender' = (wasOpen # {})
           /\ connRefChanged' = (wasOpen # {})
           /\ peersChanged' = FALSE
    /\ UNCHANGED <<wildcard, peersLoaded, peers, nmsgs, msgPeer, messageHistory,
                   sent, nsends, events>>
    /\ UNCHANGED <<msgConn, held, sentRoster>>
    /\ UNCHANGED <<cacheVars, keyVars, infVars, apiVars, lifeVars, beatVars>>

\* A remote peer connects to us: inboundConnection -> handleConnection(c, true),
\* with the closures of the last run of the connection effect.
Inbound(p) ==
    /\ events < MaxEvents
    /\ events' = events + 1
    /\ listening
    /\ FreeConns(conns) # {}
    /\ Len(timers) < MaxTimers
    /\ LET c == CHOOSE c \in FreeConns(conns) : \A d \in FreeConns(conns) : c <= d
       IN  /\ conns' = [conns EXCEPT ![c] =
                           [st |-> "pending", peer |-> p, inbound |-> TRUE,
                            qsnap |-> effQueue, psnap |-> effPeers]]
           /\ timers' = Append(timers, <<"attempt", p, c>>)
    /\ UNCHANGED <<wildcard, peersLoaded, peers, connectionsRef, connectionAttempts,
                   dataQueue, effQueue, listening, needRender, peersChanged,
                   connRefChanged, nmsgs, delivered, msgPeer, rejected, closeEv,
                   messageHistory, sent, nsends, rPeers, effPeers>>
    /\ UNCHANGED <<msgConn, held, sentRoster>>
    /\ UNCHANGED <<cacheVars, keyVars, infVars, apiVars, lifeVars, beatVars>>

HistoryFor_Never(c) == {}

\* sendMessageHistory(c), with the getPeer of the render c was handled in.
HistoryFor(c) ==
    IF wildcard \/ (conns[c].peer \in conns[c].psnap /\ Allowed(conns[c].peer))
    THEN {<<m, c, conns[c].peer>> : m \in messageHistory}
    ELSE {}

\* connection.on("open")
ConnOpen(c) ==
    /\ events < MaxEvents
    /\ events' = events + 1
    /\ conns[c].st = "pending"
    /\ conns' = [conns EXCEPT ![c].st = "open"]
    /\ connectionsRef' = DropPeer(connectionsRef, conns, {conns[c].peer}) \cup {c}
    /\ connectionAttempts' = connectionAttempts \ {conns[c].peer}
    /\ needRender' = TRUE
    /\ connRefChanged' = TRUE
    /\ sent' = sent \cup HistoryFor(c)
    /\ UNCHANGED <<wildcard, peersLoaded, peers, timers, dataQueue, effQueue,
                   listening, peersChanged, nmsgs, delivered, msgPeer, rejected,
                   closeEv, messageHistory, nsends, rPeers, effPeers>>
    /\ UNCHANGED <<msgConn, held, sentRoster>>
    /\ UNCHANGED <<cacheVars, keyVars, infVars, apiVars, lifeVars, beatVars>>

\* The body the 'close' and the 'error' listeners share.
ConnGone(c) ==
    /\ events < MaxEvents
    /\ events' = events + 1
    /\ conns[c].st \in {"pending", "open"}
    /\ conns' = [conns EXCEPT ![c] = ClosedConn]
    /\ timers' = Disown(timers, {c})
    /\ connectionsRef' = DropPeer(connectionsRef, conns, {conns[c].peer})
    /\ connectionAttempts' = connectionAttempts \ {conns[c].peer}
    /\ needRender' = TRUE
    /\ connRefChanged' = TRUE
    /\ closeEv' = closeEv \cup {conns[c].peer}
    /\ UNCHANGED <<wildcard, peersLoaded, peers, dataQueue, effQueue,
                   listening, peersChanged, nmsgs, delivered, msgPeer, rejected,
                   messageHistory, sent, nsends, rPeers, effPeers>>
    /\ UNCHANGED <<msgConn, held, sentRoster>>
    /\ UNCHANGED <<cacheVars, keyVars, infVars, apiVars, lifeVars, beatVars>>

\* connection.on('close'): the remote side or the network closes an open
\* connection.
ConnClose(c) == conns[c].st = "open" /\ ConnGone(c)

\* connection.on('error')
ConnError(c) == conns[c].st \in {"pending", "open"} /\ ConnGone(c)

\* connection.on("data"): the listener appends to the dataQueue it closed over.
ConnData(c) ==
    /\ events < MaxEvents
    /\ events' = events + 1
    /\ conns[c].st = "open"
    /\ nmsgs < MaxMsgs
    /\ nmsgs' = nmsgs + 1
    /\ msgPeer' = [msgPeer EXCEPT ![nmsgs + 1] = conns[c].peer]
    /\ msgConn' = [msgConn EXCEPT ![nmsgs + 1] = c]
    /\ held' = IF peersLoaded /\ conns[c].peer \in peers THEN held
               ELSE held \cup {nmsgs + 1}
    /\ UNCHANGED sentRoster
    /\ dataQueue' = Append(conns[c].qsnap, <<nmsgs + 1, c, conns[c].peer>>)
    /\ needRender' = TRUE
    /\ UNCHANGED <<wildcard, peersLoaded, peers, conns, connectionsRef,
                   connectionAttempts, timers, effQueue, listening, peersChanged,
                   connRefChanged, delivered, rejected, closeEv, messageHistory,
                   sent, nsends, rPeers, effPeers>>
    /\ UNCHANGED <<cacheVars, keyVars, infVars, apiVars, lifeVars, beatVars>>

\* The oldest 10-second timer fires: an attempt's timeout or the expiry of a
\* payload of the message history.
Timeout ==
    /\ events < MaxEvents
    /\ events' = events + 1
    /\ timers # <<>>
    /\ timers' = Tail(timers)
    /\ LET t == Head(timers)
       IN  IF t[1] = "attempt"
           THEN /\ connectionAttempts' = connectionAttempts \ {t[2]}
                /\ UNCHANGED messageHistory
           ELSE /\ messageHistory' = messageHistory \ {t[2]}
                /\ UNCHANGED connectionAttempts
    /\ UNCHANGED <<wildcard, conns, peersLoaded, peers, connectionsRef, dataQueue,
                   effQueue, listening, needRender, peersChanged, connRefChanged,
                   nmsgs, delivered, msgPeer, rejected, closeEv, sent, nsends,
                   rPeers, effPeers>>
    /\ UNCHANGED <<msgConn, held, sentRoster>>
    /\ UNCHANGED <<cacheVars, keyVars, infVars, apiVars, lifeVars, beatVars>>

\* keepPeerCurrent, every 60 seconds: updatePeer or createPeer changes the
\* `peers` page; connections are not touched.
Tick ==
    /\ events < MaxEvents
    /\ events' = events + 1
    /\ listening
    /\ peersChanged' = TRUE
    /\ needRender' = TRUE
    /\ closeEv' = {}
    /\ UNCHANGED <<wildcard, peersLoaded, peers, conns, connectionsRef,
                   connectionAttempts, timers, dataQueue, effQueue, listening,
                   connRefChanged, nmsgs, delivered, msgPeer, rejected,
                   messageHistory, sent, nsends, rPeers, effPeers>>
    /\ UNCHANGED <<msgConn, held, sentRoster>>
    /\ UNCHANGED <<cacheVars, keyVars, infVars, apiVars, lifeVars, beatVars>>

\* sendData(payload), as create, update and delete call it once their remote
\* call has succeeded.
sendData ==
    /\ events < MaxEvents
    /\ events' = events + 1
    /\ nsends < MaxSends
    /\ Len(timers) < MaxTimers
    /\ nsends' = nsends + 1
    /\ messageHistory' = messageHistory \cup {nsends + 1}
    /\ timers' = Append(timers, <<"history", nsends + 1, 0>>)
    /\ sent' = sent \cup {<<nsends + 1, c, conns[c].peer>> : c \in
                   {c \in connectionsRef :
                       wildcard \/ (conns[c].peer \in rPeers /\ Allowed(conns[c].peer))}}
    /\ UNCHANGED <<wildcard, peersLoaded, peers, conns, connectionsRef,
                   connectionAttempts, dataQueue, effQueue, listening, needRender,
                   peersChanged, connRefChanged, nmsgs, delivered, msgPeer,
                   rejected, closeEv, rPeers, effPeers>>
    /\ sentRoster' = [sentRoster EXCEPT ![nsends + 1] = IF peersLoaded THEN peers ELSE {}]
    /\ UNCHANGED <<msgConn, held>>
    /\ UNCHANGED <<cacheVars, keyVars, infVars, apiVars, lifeVars, beatVars>>

CacheIdle ==
    /\ CacheInit
    /\ table /\ ~hasFilter
    /\ db = [i \in Ids |-> 0]

\* Nothing has happened in any hook yet.
Idle == CacheIdle /\ MeshIdle /\ KeyIdle /\ InfIdle /\ PeerIdle

MeshInit == CacheIdle /\ wildcard \in BOOLEAN /\ MeshStart /\ KeyIdle /\ InfIdle /\ PeerIdle

MeshNext ==
    \/ \E S \in SUBSET PeerIds : RosterChange(S)
    \/ Render
    \/ \E p \in PeerIds : Inbound(p)
    \/ \E c \in ConnIds : ConnOpen(c)
    \/ \E c \in ConnIds : ConnClose(c)
    \/ \E c \in ConnIds : ConnError(c)
    \/ \E c \in ConnIds : ConnData(c)
    \/ Timeout
    \/ Tick
    \/ sendData

MeshSpec == MeshInit /\ [][MeshNext]_vars

\* ============================================ usePeers: teardown, re-enable
\* The session goes on: the mesh events of a live session with a Peer id.
Live == up /\ peerId /\ events < MaxLifeEvents

\* PeerJS loses its signalling server: disconnect() nulls peer.id and emits
\* 'disconnected', which usePeers does not listen to.
Disconnected ==
    /\ up /\ peerId
    /\ peerId' = FALSE
    /\ UNCHANGED <<up, torn, deletes>>
    /\ UNCHANGED <<cacheVars, meshVars, keyVars, infVars, apiVars, beatVars>>

\* enabled turns false or the room changes: the cleanup of the unload effect
\* runs deletePeerOnUnload and the cleanup of the connection effect clears the
\* heartbeat interval and the 'connection' listener.  conn.close() runs the
\* close listener of each active connection, peer.destroy() closes the rest.
\* No handle of a 10-second timer is kept and none is cancelled: the timers
\* pending now are marked -1.
Teardown ==
    /\ up
    /\ torn < MaxTeardowns
    /\ torn' = torn + 1
    /\ up' = FALSE
    /\ deletes' = IF peerId THEN deletes + 1 ELSE deletes
    /\ peerId' = FALSE
    /\ conns' = [c \in ConnIds |-> IF conns[c].st = "none" THEN conns[c] ELSE ClosedConn]
    /\ closeEv' = closeEv \cup ActivePeers(connectionsRef, conns)
    /\ connectionsRef' = {}
    /\ connectionAttempts' = {}
    /\ dataQueue' = <<>>
    /\ messageHistory' = {}
    /\ timers' = [n \in 1..Len(timers) |-> <<timers[n][1], timers[n][2], -1>>]
    /\ listening' = FALSE
    /\ needRender' = FALSE
    /\ UNCHANGED <<wildcard, peersLoaded, peers, effQueue, peersChanged,
                   connRefChanged, nmsgs, delivered, msgPeer, rejected, sent,
                   nsends, rPeers, effPeers, events, msgConn, held, sentRoster>>
    /\ UNCHANGED <<cacheVars, keyVars, infVars, apiVars, beatVars>>

\* enabled turns true again (or the new room's Peer opens): setPeer(newPeer)
\* renders with the roster the cache holds and runs the effects anew.
Enable ==
    /\ ~up
    /\ up' = TRUE
    /\ peerId' = TRUE
    /\ needRender' = TRUE
    /\ peersChanged' = TRUE
    /\ UNCHANGED <<torn, deletes>>
    /\ UNCHANGED <<wildcard, peersLoaded, peers, conns, connectionsRef,
                   connectionAttempts, timers, dataQueue, effQueue, listening,
                   connRefChanged, nmsgs, delivered, msgPeer, rejected, closeEv,
                   messageHistory, sent, nsends, rPeers, effPeers, events,
                   msgConn, held, sentRoster>>
    /\ UNCHANGED <<cacheVars, keyVars, infVars, apiVars, beatVars>>

LifeNext ==
    \/ \E S \in SUBSET PeerIds : Live /\ RosterChange(S)
    \/ up /\ Render
    \/ \E p \in PeerIds : Live /\ Inbound(p)
    \/ \E c \in ConnIds : Live /\ ConnOpen(c)
    \/ \E c \in ConnIds : Live /\ ConnData(c)
    \/ Live /\ sendData
    \/ up /\ events < MaxLifeEvents /\ Tick
    \/ Timeout
    \/ Disconnected
    \/ Teardown
    \/ Enable

LifeSpec == Idle /\ [][LifeNext]_vars

\* =========================================== usePeers: the local Peer row
\* createPeer({id: peer.id, room}): the row is in the page at once and in the
\* backend when the POST succeeds; a failure rolls the page back.
RowCreated(ok) ==
    /\ srvRow' = IF ok THEN clock' ELSE srvRow
    /\ cachedRow' = IF ok THEN clock' ELSE cachedRow

\* The connection effect runs after `peers` changed: it creates the row when
\* `peers` does not hold it, and keepPeerCurrent closes over this `peers`.
ConnectionEffect(ok) ==
    /\ effDue
    /\ UNCHANGED <<clock, beat>>
    /\ effRow' = IF cachedRow # NoRow THEN "held" ELSE "absent"
    /\ IF cachedRow = NoRow
       THEN RowCreated(ok) /\ effDue' = TRUE
       ELSE UNCHANGED <<srvRow, cachedRow>> /\ effDue' = FALSE
    /\ UNCHANGED <<cacheVars, meshVars, keyVars, infVars, apiVars, lifeVars>>

\* keepPeerCurrent, by the interval of the last connection effect run.
\* updatePeer(id, {updated_at: new Date()}): the PATCH updates the rows that
\* match, none when the row is gone, and answers 200 either way; the page takes
\* the row the server returned.
keepPeerCurrent(ok) ==
    /\ effRow # "unset"
    /\ clock < MaxTicks
    /\ clock' = clock + 1
    /\ IF effRow = "held"
       THEN /\ srvRow' = IF ok /\ srvRow # NoRow THEN clock' ELSE srvRow
            /\ cachedRow' = IF ok /\ srvRow # NoRow THEN clock' ELSE cachedRow
            /\ beat' = [did |-> "update", ok |-> ok]
       ELSE RowCreated(ok) /\ beat' = [did |-> "create", ok |-> ok]
    /\ effDue' = TRUE
    /\ UNCHANGED effRow
    /\ UNCHANGED <<cacheVars, meshVars, keyVars, infVars, apiVars, lifeVars>>

\* The backend drops the row (a stale peer is evicted, another client deletes
\* it).
Evict ==
    /\ srvRow # NoRow
    /\ srvRow' = NoRow
    /\ UNCHANGED <<clock, cachedRow, effRow, effDue, beat>>
    /\ UNCHANGED <<cacheVars, meshVars, keyVars, infVars, apiVars, lifeVars>>

\* The `peers` page is revalidated.
RosterRefetch ==
    /\ cachedRow # srvRow
    /\ cachedRow' = srvRow
    /\ effDue' = TRUE
    /\ UNCHANGED <<clock, srvRow, effRow, beat>>
    /\ UNCHANGED <<cacheVars, meshVars, keyVars, infVars, apiVars, lifeVars>>

BeatNext ==
    \/ \E ok \in BOOLEAN : ConnectionEffect(ok)
    \/ \E ok \in BOOLEAN : keepPeerCurrent(ok)
    \/ Evict
    \/ RosterRefetch

BeatSpec == Idle /\ [][BeatNext]_vars

\* ==================================================== apiPath and the room
\* Strings are kept as sequences of tokens: a template literal concatenates.
Tables    == {Null, "posts", "user_posts", "user-posts"}

ValueOf(k) ==
    CASE k = "lang"  -> "en"
      [] k = "limit" -> "5"
      [] k = "q"     -> "a b"

\* The key orders of a params object with n entries: no key twice.
ParamsOfLen(n) ==
    {p \in [1..n -> {"lang", "limit", "q"}] : \A a, b \in 1..n : p[a] = p[b] => a = b}

\* params: null (or undefined), or an object with its entries <<key, value>> in
\* insertion order.
NoParams == [null |-> TRUE, entries |-> <<>>]
ParamsObject(es) == [null |-> FALSE, entries |-> es]

Params ==
    {NoParams} \cup
    UNION {{ParamsObject([n \in 1..len |-> <<p[n], ValueOf(p[n])>>]) : p \in ParamsOfLen(len)} :
              len \in 0..MaxParams}

\* The value null of a path, and undefined of a stringification.
NoTokens == <<>>

\* table.replaceAll('_', '-')
Route(t) == IF t = "user_posts" THEN "user-posts" ELSE t

\* The application/x-www-form-urlencoded serializer: a space becomes "+",
\* the other characters of these names and values are kept.
UrlEncode(x) == IF x = "a b" THEN "a+b" ELSE x

\* new URLSearchParams(params).toString(): name=value pairs joined by "&", in
\* the order the object lists its entries.
RECURSIVE QueryFrom(_, _)
QueryFrom(es, n) ==
    IF n > Len(es) THEN <<>>
    ELSE (IF n > 1 THEN <<"&">> ELSE <<>>)
         \o <<UrlEncode(es[n][1]), "=", UrlEncode(es[n][2])>>
         \o QueryFrom(es, n + 1)

apiPath(t, i, p) ==
    IF t = Null THEN NoTokens
    ELSE <<"/api/", Route(t)>>
         \o (IF i # Null THEN <<"/", i>> ELSE <<>>)
         \o (IF ~p.null THEN <<"?">> \o QueryFrom(p.entries, 1) ELSE <<>>)

\* JSON.stringify of an object of strings: "name":"value" members joined by
\* ",", in the order the object lists its entries; undefined for undefined.
RECURSIVE MembersFrom(_, _)
MembersFrom(es, n) ==
    IF n > Len(es) THEN <<>>
    ELSE (IF n > 1 THEN <<",">> ELSE <<>>)
         \o <<"\"", es[n][1], "\":\"", es[n][2], "\"">>
         \o MembersFrom(es, n + 1)

JsonStringify(p) ==
    IF p.null THEN NoTokens ELSE <<"{">> \o MembersFrom(p.entries, 1) \o <<"}">>

\* const roomNameParams = params ? { ...params } : null, then delete of lang,
\* offset and limit (null stays null; the order of the entries left is kept).
RoomNameParams(p) ==
    IF p.null THEN NoParams
    ELSE ParamsObject(SelectSeq(p.entries,
                                LAMBDA e : e[1] \notin {"lang", "offset", "limit"}))

\* The body of the room memo; <<>> is undefined.
ComputeRoom(t, p, r) ==
    LET roomNameParams == RoomNameParams(p)
    IN  IF r # Null THEN <<r>>
        ELSE IF Len(roomNameParams.entries) > 0
             THEN <<t, ":">> \o JsonStringify(roomNameParams)
        ELSE IF t # Null THEN <<t>>
        ELSE <<>>

\* A call of apiPath by useEntity or by one of the helper hooks.
CallApiPath(t, i, p) ==
    /\ pathIn' = <<t, i, p>>
    /\ path' = apiPath(t, i, p)
    /\ UNCHANGED <<rTable, rParams, rRoomOpt, room, memoDeps>>
    /\ UNCHANGED <<rtOpts, rtMesh, rtChannel, srvEvent>>
    /\ UNCHANGED <<cacheVars, meshVars, infVars, apiVars, lifeVars, beatVars>>

\* usePeers({enabled = true, ...}): the default of the destructured option
\* replaces undefined, and only undefined.
usePeersEnabled(enabled) == IF enabled = "undefined" THEN "true" ELSE enabled

\* A render of useEntities with realtimeOptions {enabled, provider, room}: the
\* path, and the room, which useMemo computes again only when
\* [realtimeOptions?.room, JSON.stringify(params)] changed; usePeers is called
\* when the provider is "peerjs" and creates its Peer when enabled with a room;
\* the Supabase Realtime effect subscribes to the room's channel.
RenderRealtime(t, p, r, enabled, provider) ==
    /\ pathIn' = <<t, Null, p>>
    /\ path' = apiPath(t, Null, p)
    /\ rTable' = t
    /\ rParams' = p
    /\ rRoomOpt' = r
    /\ memoDeps' = <<r, JsonStringify(p)>>
    /\ room' = IF memoDeps' # memoDeps THEN ComputeRoom(t, p, r) ELSE room
    /\ rtOpts' = [enabled |-> enabled, provider |-> provider]
    /\ rtMesh' = (/\ provider = "peerjs"
                  /\ usePeersEnabled(enabled) = "true"
                  /\ room' # <<>>)
    /\ rtChannel' = IF enabled = "true" /\ room' # <<>> /\ provider = "supabase"
                    THEN room' ELSE <<>>
    /\ UNCHANGED srvEvent
    /\ UNCHANGED <<cacheVars, meshVars, infVars, apiVars, lifeVars, beatVars>>

\* A render of useEntities whose realtimeOptions name no provider and do not
\* set enabled.
RenderEntities(t, p, r) == RenderRealtime(t, p, r, "undefined", "undefined")

KeyNext ==
    \/ \E t \in Tables, i \in {Null, "7"}, p \in Params : CallApiPath(t, i, p)
    \/ \E t \in Tables, p \in Params, r \in {Null, "lobby"} : RenderEntities(t, p, r)

KeySpec == Idle /\ [][KeyNext]_vars

\* ------------------------------------------ the server's realtime broadcast
\* The table whose schema names a realtimeParent broadcasts for that parent.
ParentTable == "chats"

\* sendRealtime(table, event, payload) under the table's schema: "off" has
\* neither realtime nor realtimeParent, "table" has realtime only, "byQ" has
\* realtimeIdentifier: "q", "parent" has a realtimeParent whose entity is
\* found, "orphan" one whose entity is not.  The parent's own schema has
\* realtime and no identifier.  room <<>>: nothing is broadcast.
sendRealtime(t, event, schema, q) ==
    /\ srvEvent' =
           CASE schema \in {"off", "orphan"} ->
                    [made |-> TRUE, table |-> t, event |-> event, q |-> q,
                     schema |-> schema, room |-> <<>>]
             [] schema = "parent" ->
                    [made |-> TRUE, table |-> ParentTable, event |-> "update_entity",
                     q |-> q, schema |-> schema, room |-> <<ParentTable>>]
             [] schema = "byQ" ->
                    [made |-> TRUE, table |-> t, event |-> event, q |-> q,
                     schema |-> schema, room |-> <<t, ":", q>>]
             [] OTHER ->
                    [made |-> TRUE, table |-> t, event |-> event, q |-> q,
                     schema |-> schema, room |-> <<t>>]
    /\ UNCHANGED <<pathIn, path, rTable, rParams, rRoomOpt, room, memoDeps,
                   rtOpts, rtMesh, rtChannel>>
    /\ UNCHANGED <<cacheVars, meshVars, infVars, apiVars, lifeVars, beatVars>>

RealtimeNext ==
    \/ \E t \in {Null, "posts"}, p \in {x \in Params : Len(x.entries) <= 1},
          r \in {Null, "lobby"}, enabled \in {"true", "false", "undefined"},
          provider \in {"peerjs", "supabase", "undefined"} :
              RenderRealtime(t, p, r, enabled, provider)
    \/ \E event \in {"create_entity", "update_entity", "delete_entity"},
          schema \in {"off", "table", "byQ", "parent", "orphan"},
          q \in {"a b", "c"} :
              sendRealtime("posts", event, schema, q)

RealtimeSpec == Idle /\ [][RealtimeNext]_vars

\* ================================================== useInfiniteEntities
RowIds == 1..MaxRows

\* apiPath(table, null, {limit: InfLimit}) of the infinite collection.
InfUrl == <<"/api/", "posts", "?", "limit", "=", InfLimit>>

\* useInfiniteCache.getKey; prev.null tells a null previousPageData, and
\* prev.hasData a previousPageData whose data is not undefined (an array, even
\* an empty one, is truthy).
getKey(url, pageIndex, prev) ==
    IF url = NoTokens THEN NoTokens
    ELSE IF ~prev.null /\ ~prev.hasData THEN NoTokens
    ELSE IF pageIndex = 0 THEN url
    ELSE url \o <<"&offset=", pageIndex * prev.page.limit>>

\* The offset the server reads in a key: parseInt(params.offset || 0).
OffsetOf(key) == IF Len(key) > Len(InfUrl) THEN key[Len(key)] ELSE 0

\* The page the collection GET handler answers with for that key.
InfServerPage(rows, key) ==
    LET offset == OffsetOf(key)
        last   == IF offset + InfLimit < Len(rows) THEN offset + InfLimit ELSE Len(rows)
        ids    == SubSeq(rows, offset + 1, last)
    IN  [data |-> [n \in 1..Len(ids) |-> Entity(ids[n], 1, TRUE)],
         count |-> Len(rows), limit |-> InfLimit, offset |-> offset,
         has_more |-> (offset + Len(ids) < Len(rows))]

\* useInfiniteEntities.removeEntity: filter the id out of every page.
infRemoveEntity(data, i) ==
    [n \in 1..Len(data) |->
        [data[n] EXCEPT !.data = SelectSeq(data[n].data, LAMBDA e : e.id # i)]]

\* appendEntity filtering the first page only.
infAppendEntity_FirstPageOnly(data, newEntity) ==
    [data EXCEPT ![1].data =
        Append(SelectSeq(data[1].data, LAMBDA e : e.id # newEntity.id), newEntity)]

\* useInfiniteEntities.appendEntity: filter the id out of every page, push the
\* entity onto the first page.
infAppendEntity(data, newEntity) ==
    LET filteredPages == infRemoveEntity(data, newEntity.id)
    IN  [filteredPages EXCEPT ![1].data = Append(filteredPages[1].data, newEntity)]

\* setSize(size + 1) by the application.
InfSetSize ==
    /\ iSize < MaxSize
    /\ iSize' = iSize + 1
    /\ UNCHANGED <<iRows, iPages, iOp, iKey>>
    /\ UNCHANGED <<cacheVars, meshVars, keyVars, apiVars, lifeVars, beatVars>>

\* useSWRInfinite loads the next page below size: it asks getKey for the key
\* and stops at a null key.  (A load that overlaps a mutation is discarded by
\* SWR, so loads wait for the mutation.)
InfLoad ==
    /\ iOp.st = "idle"
    /\ Len(iPages) < iSize
    /\ LET pageIndex == Len(iPages)
           prev == IF pageIndex = 0
                   THEN [null |-> TRUE, hasData |-> FALSE,
                         page |-> InfServerPage(<<>>, InfUrl)]
                   ELSE [null |-> FALSE, hasData |-> TRUE, page |-> iPages[pageIndex]]
           key == getKey(InfUrl, pageIndex, prev)
       IN  /\ iKey' = [index |-> pageIndex, key |-> key]
           /\ iPages' = IF key = NoTokens THEN iPages
                        ELSE Append(iPages, InfServerPage(iRows, key))
    /\ UNCHANGED <<iRows, iSize, iOp>>
    /\ UNCHANGED <<cacheVars, meshVars, keyVars, apiVars, lifeVars, beatVars>>

\* Another client creates a row, which the server lists first.
ServerInsert(i) ==
    /\ \A n \in 1..Len(iRows) : iRows[n] # i
    /\ iRows' = <<i>> \o iRows
    /\ UNCHANGED <<iPages, iSize, iOp, iKey>>
    /\ UNCHANGED <<cacheVars, meshVars, keyVars, apiVars, lifeVars, beatVars>>

\* useInfiniteEntities.create up to its await: the optimistic pages.  With no
\* page loaded appendEntity throws and the call returns the error.
infCreate(i) ==
    /\ iOp.st = "idle"
    /\ Len(iPages) >= 1
    /\ iPages' = infAppendEntity(iPages, Entity(i, 1, FALSE))
    /\ iOp' = [st |-> "wait", id |-> i, val |-> 1, committed |-> iPages]
    /\ UNCHANGED <<iRows, iSize, iKey>>
    /\ UNCHANGED <<cacheVars, meshVars, keyVars, apiVars, lifeVars, beatVars>>

\* The upsert's response: populateCache over the committed pages, or the
\* rollback to them.
infRespond(ok) ==
    /\ iOp.st = "wait"
    /\ iPages' = IF ok THEN infAppendEntity(iOp.committed, Entity(iOp.id, iOp.val, TRUE))
                 ELSE iOp.committed
    /\ iRows' = IF ok /\ \A n \in 1..Len(iRows) : iRows[n] # iOp.id
                THEN <<iOp.id>> \o iRows ELSE iRows
    /\ iOp' = NoInfOp
    /\ UNCHANGED <<iSize, iKey>>
    /\ UNCHANGED <<cacheVars, meshVars, keyVars, apiVars, lifeVars, beatVars>>

InfInit ==
    /\ CacheIdle /\ MeshIdle /\ KeyIdle /\ PeerIdle
    /\ iRows \in {<<>>, <<1>>, <<2, 1>>}
    /\ iPages = <<>>
    /\ iSize = 1
    /\ iOp = NoInfOp
    /\ iKey = [index |-> -1, key |-> <<>>]

InfNext ==
    \/ InfSetSize
    \/ InfLoad
    \/ \E i \in RowIds : ServerInsert(i)
    \/ \E i \in RowIds : infCreate(i)
    \/ \E ok \in BOOLEAN : infRespond(ok)

InfSpec == InfInit /\ [][InfNext]_vars

\* ================================ the collection GET handler and requestAPI
\* JavaScript values of the handler: a number, a string of decimal digits (a
\* query parameter), or undefined (the parameter is absent).
JsNum(n)    == [t |-> "number", n |-> n]
JsStr(n)    == [t |-> "string", n |-> n]
JsUndefined == [t |-> "undefined", n |-> 0]

\* x || d
JsOr(x, d) == IF x.t = "undefined" \/ (x.t = "number" /\ x.n = 0) THEN d ELSE x

\* parseInt of a number or of a string of digits.
parseInt(x) == JsNum(x.n)

\* How many decimal digits n is written with, and 10 to that power.
RECURSIVE Shift(_)
Shift(n) == IF n < 10 THEN 10 ELSE 10 * Shift(n \div 10)

\* a + b with b a number: a string is concatenated with b's digits.
JsPlus(a, b) ==
    IF a.t = "string" THEN JsStr(a.n * Shift(b.n) + b.n) ELSE JsNum(a.n + b.n)

\* entityQuery's pagination: how many of the `count` matching rows the query
\* returns for params.limit (100 when absent, at most 100) and params.offset.
RowsReturned(count, limit, offset) ==
    LET lim  == IF JsOr(limit, JsNum(DefaultLimit)).n < DefaultLimit
                THEN JsOr(limit, JsNum(DefaultLimit)).n ELSE DefaultLimit
        off  == JsOr(offset, JsNum(0)).n
        left == IF count > off THEN count - off ELSE 0
    IN  IF left < lim THEN left ELSE lim

\* getEntities with the offset returned as it arrived.
getEntitiesOffset_Unparsed(params) == JsOr(params.offset, JsNum(0))

\* getEntities: offset: parseInt(params.offset || 0)
getEntitiesOffset(params) == parseInt(JsOr(params.offset, JsNum(0)))

\* entitiesRoute, method GET, for a table with `count` matching rows.
entitiesRoute(count, params) ==
    LET entities == RowsReturned(count, params.limit, params.offset)
        limit    == parseInt(JsOr(params.limit, JsNum(DefaultLimit)))
        offset   == getEntitiesOffset(params)
    IN  [made |-> TRUE, status |-> 200, data |-> entities, count |-> count,
         limit |-> limit, offset |-> offset,
         has_more |-> (JsPlus(offset, JsNum(entities)).n < count)]

\* A GET of a collection reaches the handler.
GetEntities(count, limit, offset) ==
    /\ apiReq' = [made |-> TRUE, count |-> count, limit |-> limit, offset |-> offset]
    /\ apiRes' = entitiesRoute(count, [limit |-> limit, offset |-> offset])
    /\ UNCHANGED <<apiCall, pgKey, pgPage>>
    /\ UNCHANGED <<cacheVars, meshVars, keyVars, infVars, lifeVars, beatVars>>

\* res.ok
Ok(status) == status >= 200 /\ status <= 299

\* useAPI.requestAPI: what the caller gets for a response whose body is JSON
\* with error.message ("message"), other JSON or not JSON ("text").  The error is
\* new Error(json?.error?.message || `Failed to fetch ${path}`); res.json()
\* rejects with a SyntaxError on a body that is not JSON.
requestAPI(method, status, body) ==
    /\ apiCall' =
          [made |-> TRUE, method |-> method, status |-> status, body |-> body,
           raised |-> (~Ok(status) \/ body = "text"),
           message |-> IF body = "text" THEN "SyntaxError"
                       ELSE IF Ok(status) THEN "none"
                       ELSE IF body = "message" THEN "server"
                       ELSE "Failed to fetch",
           errStatus |-> 0]
    /\ UNCHANGED <<apiReq, apiRes, pgKey, pgPage>>
    /\ UNCHANGED <<cacheVars, meshVars, keyVars, infVars, lifeVars, beatVars>>

ApiNext ==
    \/ \E count \in 0..MaxCount, limit \in {JsUndefined, JsStr(10)},
          offset \in {JsUndefined, JsStr(0), JsStr(10), JsStr(20)} :
           GetEntities(count, limit, offset)
    \/ \E method \in {"GET", "POST", "PATCH", "DELETE"},
          status \in {200, 201, 401, 404, 500},
          body \in {"message", "json", "text"} :
           requestAPI(method, status, body)

ApiSpec == Idle /\ [][ApiNext]_vars

\* ------------------------------------- the pages of an Infinite Collection
\* What the server reads in a key: the [entities] segment of the route is
\* what follows "/api/" up to the "?", req.query the name=value pairs after
\* it.  A key is apiPath("posts", null, params), with "&offset=" and a number
\* appended for a page after the first.
ParseKey(key) ==
    LET hasQuery  == Len(key) >= 3 /\ key[3] = "?"
        hasOffset == key[Len(key) - 1] = "&offset="
        digits    == [x \in {"2", "10", "150"} |->
                        CASE x = "2" -> 2 [] x = "10" -> 10 [] OTHER -> 150]
    IN  [entities |-> IF hasQuery THEN <<key[2]>> ELSE SubSeq(key, 2, Len(key)),
         limit    |-> IF hasQuery /\ Len(key) >= 6 /\ key[4] = "limit"
                      THEN JsStr(digits[key[6]]) ELSE JsUndefined,
         offset   |-> IF hasQuery /\ hasOffset THEN JsStr(key[Len(key)])
                      ELSE JsUndefined]

\* useSWRInfinite fetches `key` as page `index` of a table of `count` rows:
\* entitiesRoute answers 404 when no schema has the table's name.
FetchPage(index, url, key, count) ==
    LET query == ParseKey(key)
    IN  /\ pgKey' = [index |-> index, url |-> url, key |-> key, count |-> count,
                     query |-> query]
        /\ pgPage' = IF query.entities = <<"posts">>
                      THEN entitiesRoute(count, query)
                      ELSE [made |-> TRUE, status |-> 404]
        /\ UNCHANGED <<apiReq, apiRes, apiCall>>
        /\ UNCHANGED <<cacheVars, meshVars, keyVars, infVars, lifeVars, beatVars>>

\* useInfiniteEntities("posts", params) loads its first page.
FirstPage(p, count) ==
    LET url == apiPath("posts", Null, p)
        key == getKey(url, 0, [null |-> TRUE, hasData |-> FALSE, page |-> [limit |-> 0]])
    IN  FetchPage(0, url, key, count)

\* setSize(size + 1): getKey is called with the page loaded last.
NextPage ==
    /\ pgKey.index >= 0
    /\ pgKey.index + 1 < MaxSize
    /\ pgPage.status = 200
    /\ LET key == getKey(pgKey.url, pgKey.index + 1,
                         [null |-> FALSE, hasData |-> TRUE,
                          page |-> [limit |-> pgPage.limit.n]])
       IN  FetchPage(pgKey.index + 1, pgKey.url, key, pgKey.count)

PageNext ==
    \/ \E p \in {NoParams, ParamsObject(<<>>)}
                  \cup {ParamsObject(<<<<"limit", l>>>>) : l \in {"2", "10", "150"}},
          count \in (0..MaxCount) \cup {BigCount} :
              FirstPage(p, count)
    \/ NextPage

PageSpec == Idle /\ [][PageNext]_vars

\* ================================================================ claims
ResponseOf(o) ==
    ops[o].st = "wait" /\ ops'[o].st = "idle" /\ ops[o].kind \notin EntityKinds

\* C1: when a create, update or delete made with no other mutation in flight
\* fails remotely, the page is, once the call has returned, exactly the page
\* shown when it was called, and the result carries the error.
C1_RollbackRestoresPage ==
    [][\A o \in OpIds :
          (ResponseOf(o) /\ ops[o].alone /\ result'.remote = "fail")
              => (pageData' = ops[o].shown /\ result'.error)]_vars

C1_Witness ==
    /\ result.done /\ result.alone /\ result.remote = "fail" /\ result.error
    /\ InFlight = {}
    /\ pageData.loaded /\ pageData.data # <<>> /\ pageData.count = Len(pageData.data)

\* C2: the step that calls create(E) and suspends on the remote call leaves a
\* page whose data holds an entity with E's id.
C2_CreateVisibleBeforeAck ==
    [][\A o \in OpIds :
          (ops[o].st = "idle" /\ ops'[o].st = "wait" /\ ops'[o].kind = "create")
              => HasId(pageData', ops'[o].id)]_vars

C2_Witness ==
    \E o \in OpIds :
        /\ ops[o].st = "wait" /\ ops[o].kind = "create"
        /\ ~HasId(ops[o].committed, ops[o].id)
        /\ HasId(pageData, ops[o].id)

\* C3 (as claimed): when a create, update or delete succeeds, the page after
\* the response is the append / replace / filter transform of the server's
\* entity applied to the page as it stood when the response arrived.
C3_ReconciledOnPageAtResponse ==
    [][\A o \in OpIds :
          (ResponseOf(o) /\ result'.remote = "ok" /\ pageData.loaded)
              => pageData' = populateCache(ops[o],
                                 Entity(ops[o].id, ops[o].val, TRUE), pageData)]_vars

\* C4 (as claimed): every mutation call that returns without its remote call
\* having succeeded reports the failure in its result's error field.
C4_FailureIsReported ==
    (result.done /\ result.remote # "ok") => result.error

\* C9: after the child propagation effect of a collection has run, every
\* entity of that collection's page is the value of its Entity Cache key,
\* whatever the key held before (the copy written last wins).
C9_ChildrenPropagated ==
    [][/\ (dirty /\ ~dirty') =>
              \A n \in 1..Len(pageData'.data) :
                  slots'[ChildKey(pageData'.data[n].id)] = pageData'.data[n]
       /\ (fetches' # fetches /\ fetch' = fetch /\ signals' = signals) =>
              \A n \in 1..Len(ServerPage(db).data) :
                  slots'[ChildKey(ServerPage(db).data[n].id)] = ServerPage(db).data[n]]_vars

C9_Witness ==
    /\ ~dirty /\ pageData.loaded
    /\ \E n \in 1..Len(pageData.data) :
          /\ ~pageData.data[n].srv
          /\ slots[ChildKey(pageData.data[n].id)] = pageData.data[n]
          /\ db[pageData.data[n].id] \notin {0, pageData.data[n].val}

\* ------------------------------------------------------------ mesh claims
InQueue(m) == \E n \in 1..Len(dataQueue) : dataQueue[n][1] = m

Received == 1..nmsgs

\* C5: for every peer p, while an outbound attempt to p is pending and less
\* than 10 seconds old there is no second outbound attempt to p, whatever
\* roster changes, renders, inbound connections and other connections' events
\* happen in between.
C5_OneAttemptPerPeer ==
    \A p \in PeerIds :
        Cardinality({c \in ConnIds : /\ conns[c].st = "pending"
                                     /\ ~conns[c].inbound
                                     /\ conns[c].peer = p
                                     /\ Young(c)}) <= 1

\* C6: with a restricted allow-list, once the queue has been handled, a message
\* that came from a peer the roster resolves to a user outside the list has
\* not been passed to onData and its connection is closed.
C6_DisallowedRejectedAndClosed ==
    (~wildcard /\ ~needRender) =>
        \A m \in Received :
            (peersLoaded /\ msgPeer[m] \in peers /\ ~Allowed(msgPeer[m]))
                => (delivered[m] = 0 /\ conns[msgConn[m]].st = "closed")

\* C7: every message received while its sender was not in the roster, from an
\* allowed sender, stays in the data queue until it is passed to onData, and
\* is passed to onData at most once.
C7_HeldUntilDeliveredOnce ==
    \A m \in held :
        Allowed(msgPeer[m]) =>
            /\ delivered[m] <= 1
            /\ delivered[m] = 0 => InQueue(m)

\* C10: the step in which a connection to p closes or errors leaves p in
\* neither the active set nor the attempts set, and a pass of the connection
\* effect that no change of the roster (the 60-second refresh included) has
\* triggered starts no attempt to a peer whose connection closed or errored
\* since the last refresh.
C10_NoReconnectUntilNextPass ==
    [][\A c \in ConnIds :
          /\ (conns[c].st \in {"pending", "open"} /\ conns'[c].st = "closed")
                => /\ conns[c].peer \notin connectionAttempts'
                   /\ conns[c].peer \notin ActivePeers(connectionsRef', conns')
          /\ (conns[c].st = "none" /\ conns'[c].st = "pending"
                  /\ ~conns'[c].inbound /\ ~peersChanged)
                => conns'[c].peer \notin closeEv]_vars

EntityCallOf(o, kind) ==
    ops[o].st = "idle" /\ ops'[o].st = "wait" /\ ops'[o].kind = kind

EntityResponseOf(o, kind) ==
    ops[o].st = "wait" /\ ops'[o].st = "idle" /\ ops[o].kind = kind

C12_UpdateRestoresShown ==
    [][\A o \in OpIds :
          (EntityResponseOf(o, "entUpdate") /\ result'.remote = "fail")
              => /\ slots'[ChildKey(ops[o].id)] = ops[o].slotShown
                 /\ result'.error
                 /\ ops'[o] = IdleOp /\ db' = db]_vars

\* C12 (amended): when the remote patch fails and nothing else wrote the slot
\* during the call, the slot holds again the snapshot committed when the call
\* was made, which is the one it showed when no mutation was in flight; in
\* every case the error is returned and the call is over with the server's
\* row untouched.
C12_UpdateRolledBack ==
    [][\A o \in OpIds :
          (EntityResponseOf(o, "entUpdate") /\ result'.remote = "fail")
              => /\ result'.error
                 /\ ops'[o] = IdleOp /\ db' = db
                 /\ ~ops[o].slotRaced
                       => slots'[ChildKey(ops[o].id)] = ops[o].slotCommitted
                 /\ (~ops[o].slotRaced /\ ops[o].alone)
                       => slots'[ChildKey(ops[o].id)] = ops[o].slotShown]_vars

C12_Witness ==
    /\ result.done /\ result.kind = "entUpdate" /\ result.remote = "fail"
    /\ result.error /\ result.alone
    /\ InFlight = {}
    /\ slots[ChildKey(result.id)].k = "ent" /\ slots[ChildKey(result.id)].srv
    /\ db[result.id] = slots[ChildKey(result.id)].val

\* -------------------------------------------- Collection Page invariants
\* C13: the page that the optimistic edit of a create, update or delete
\* writes, and the page its reconciliation writes, has count equal to the
\* number of entities in data.
C13_CountMatchesData ==
    [][\A o \in OpIds :
          ((ops[o].st = "idle" /\ ops'[o].st = "wait" /\ ops'[o].kind \notin EntityKinds)
              \/ (ResponseOf(o) /\ result'.remote = "ok" /\ ~ops[o].raced))
              => (pageData'.loaded => pageData'.count = Len(pageData'.data))]_vars

\* C14: every Collection Page in the cache has
\* has_more = (offset + len(data) < count); as JavaScript evaluates it, a
\* comparison with an undefined count is false.
C14_HasMoreConsistent ==
    pageData.loaded =>
        (pageData.has_more
            <=> (/\ pageData.count # CountUndefined
                 /\ pageData.offset + Len(pageData.data) < pageData.count))

UniqueIds(page) ==
    \A m, n \in 1..Len(page.data) : page.data[m].id = page.data[n].id => m = n

\* C15: the page in the cache, and the committed page kept beside an
\* optimistic one, never holds two entities with the same id, whatever
\* creates, updates, deletes and mutateEntity calls were made.
C15_NoDuplicateIds ==
    /\ pageData.loaded => UniqueIds(pageData)
    /\ pageC.loaded => UniqueIds(pageC)

\* A create whose id was already on the page is in flight, or has been
\* reconciled, beside another entity.
C15_Witness ==
    /\ pageData.loaded /\ Len(pageData.data) >= 2
    /\ \/ \E o \in OpIds :
             /\ ops[o].st = "wait" /\ ops[o].kind = "create"
             /\ HasId(ops[o].committed, ops[o].id)
             /\ HasId(pageData, ops[o].id)
       \/ /\ result.done /\ result.kind = "create" /\ result.remote = "ok"
          /\ HasId(pageData, result.id)
          /\ pageData.data[Len(pageData.data)].srv

SameOrder(a, b) ==
    /\ Len(a.data) = Len(b.data)
    /\ \A n \in 1..Len(a.data) : a.data[n].id = b.data[n].id

\* C17: update(id, fields) of an entity on the page replaces it in place: in
\* the optimistic page and in the reconciled page every entity, the updated
\* one included, is at the position it had in the page the update started from.
C17_UpdateInPlace ==
    [][\A o \in OpIds :
          /\ (EntityCallOf(o, "update") /\ HasId(ops'[o].committed, ops'[o].id))
                 => SameOrder(ops'[o].committed, pageData')
          /\ (EntityResponseOf(o, "update") /\ result'.remote = "ok"
                  /\ ~ops[o].raced /\ HasId(ops[o].committed, ops[o].id))
                 => SameOrder(ops[o].committed, pageData')]_vars

\* ------------------------------------------------ keys and the room name
SameEntries(p, q) ==
    /\ p.null = q.null
    /\ {p.entries[n] : n \in 1..Len(p.entries)} = {q.entries[n] : n \in 1..Len(q.entries)}

\* C19: a call of the Path/Key Builder with the table and the id of the call
\* before it, and with params holding the same entries (inserted in the same
\* or in another order), returns the key the call before it returned.
C19_KeyIgnoresInsertionOrder ==
    [][(/\ pathIn'[1] = pathIn[1]
        /\ pathIn'[2] = pathIn[2]
        /\ SameEntries(pathIn'[3], pathIn[3]))
            => path' = path]_vars

\* C20: the room of a Collection Cache is the explicit room when one is given,
\* and otherwise the room derived from the table it is rendered with and from
\* its params without lang, limit and offset.
C20_RoomFromTableAndParams ==
    /\ rRoomOpt # Null => room = <<rRoomOpt>>
    /\ rRoomOpt = Null => room = ComputeRoom(rTable, RoomNameParams(rParams), Null)

\* ---------------------------------------------------- Infinite Collection
\* How often id i occurs in the page sequence.
RECURSIVE CountId(_, _)
CountId(data, i) ==
    IF data = <<>> THEN 0
    ELSE Len(SelectSeq(Head(data).data, LAMBDA e : e.id = i)) + CountId(Tail(data), i)

InfCallOf == iOp.st = "idle" /\ iOp'.st = "wait"
InfSuccessOf ==
    iOp.st = "wait" /\ iOp'.st = "idle" /\ iPages' # iOp.committed

\* C16 (as stated): after appendEntity, by create or by its reconciliation,
\* no id occurs twice in the whole page sequence.
C16_OnePerIdAfterAppend ==
    [][(InfCallOf \/ InfSuccessOf) => \A i \in RowIds : CountId(iPages', i) <= 1]_vars

\* C16 (amended): after appendEntity, by create or by its reconciliation, the
\* appended id occurs once in the whole page sequence, at the end of the first
\* page, and every other id occurs as often as in the pages appendEntity was
\* given.
C16_AppendedOnceOthersKept ==
    [][/\ InfCallOf =>
            /\ CountId(iPages', iOp'.id) = 1
            /\ iPages'[1].data[Len(iPages'[1].data)].id = iOp'.id
            /\ \A i \in RowIds \ {iOp'.id} : CountId(iPages', i) = CountId(iPages, i)
       /\ InfSuccessOf =>
            /\ CountId(iPages', iOp.id) = 1
            /\ iPages'[1].data[Len(iPages'[1].data)].id = iOp.id
            /\ \A i \in RowIds \ {iOp.id} :
                   CountId(iPages', i) = CountId(iOp.committed, i)]_vars

\* A create is in flight whose id was on a page after the first.
C16_Witness ==
    /\ iOp.st = "wait"
    /\ \E n \in 2..Len(iOp.committed) :
           \E m \in 1..Len(iOp.committed[n].data) : iOp.committed[n].data[m].id = iOp.id
    /\ CountId(iPages, iOp.id) = 1

\* C18: when getKey is asked for the key of a page after the first, it returns
\* null if the page before has has_more false or empty data, and it returns
\* a key only if that page has has_more true.
C18_NullKeyPastTheEnd ==
    [][(iKey' # iKey /\ iKey'.index >= 1) =>
          LET prev == iPages[iKey'.index]
          IN  /\ (~prev.has_more \/ prev.data = <<>>) => iKey'.key = NoTokens
              /\ iKey'.key # NoTokens => prev.has_more]_vars

\* C30: two keys the Path/Key Builder produced one after the other are equal
\* if and only if the two calls had the same table, the same id and params
\* holding the same entries.
C30_KeysEqualIffInputsEqual ==
    [][(path # NoTokens /\ path' # NoTokens) =>
          ((path' = path) <=> (/\ pathIn'[1] = pathIn[1]
                               /\ pathIn'[2] = pathIn[2]
                               /\ SameEntries(pathIn'[3], pathIn[3])))]_vars

\* ------------------------------------------------- the HTTP side
\* C28: a response of requestAPI that is not 2xx reaches the caller as a
\* raised error that carries the HTTP status and, when the server reported
\* one, the server's message.
C28_ErrorCarriesMessageAndStatus ==
    (apiCall.made /\ ~Ok(apiCall.status)) =>
        /\ apiCall.raised
        /\ apiCall.body = "message" => apiCall.message = "server"
        /\ apiCall.errStatus = apiCall.status

\* C29: the collection GET handler answers has_more = (offset + data.length <
\* count) with offset and count as numbers; it is true for count 25, offset 10
\* and 10 entities, false for count 25, offset 20 and 5 entities.
C29_HasMoreIsNumeric ==
    apiRes.made =>
        /\ apiRes.has_more <=> (apiRes.offset.n + apiRes.data < apiRes.count)
        /\ apiRes.offset.t = "number"
        /\ (apiRes.count = 25 /\ apiRes.offset.n = 10 /\ apiRes.data = 10) => apiRes.has_more
        /\ (apiRes.count = 25 /\ apiRes.offset.n = 20 /\ apiRes.data = 5) => ~apiRes.has_more

\* The handler answered the GET of offset=10&limit=10 on 25 matching rows.
C29_Witness ==
    /\ apiRes.made /\ apiReq.offset = JsStr(10) /\ apiReq.limit = JsStr(10)
    /\ apiRes.count = 25 /\ apiRes.data = 10 /\ apiRes.has_more

\* ------------------------------------------------- sendData and the replay
\* C25: with an allow-list without "*", sendData sends the payload on no
\* connection whose peer has a user outside the list or is not resolved in the
\* roster; with "*" in the list it sends the payload on every connection of
\* the active set.
C25_SendFilteredByAllowList ==
    [][nsends' # nsends =>
          /\ ~wildcard =>
                \A x \in sent' \ sent :
                    /\ UserOf(x[3]) = "u1"
                    /\ x[3] \in rPeers \/ (peersLoaded /\ x[3] \in peers)
          /\ wildcard =>
                \A c \in connectionsRef : <<nsends', c, conns[c].peer>> \in sent']_vars

\* With the allow-list ["u1"], a payload was sent on the connection to peer 1
\* and not on the active connection to peer 2.
C25_Witness ==
    /\ ~wildcard
    /\ nsends = 1
    /\ \E c \in connectionsRef : conns[c].peer = 1 /\ <<1, c, 1>> \in sent
    /\ \E c \in connectionsRef : conns[c].peer = 2 /\ <<1, c, 2>> \notin sent

\* C26: a connection that opens while a payload is less than 10 seconds old
\* (its expiry has not fired) and whose peer passes the allow-list ("*" is in
\* it, or the roster resolves the peer to a user in it) is sent the payload; a
\* connection that opens after the expiry is not.
C26_ReplayedWithinTenSeconds ==
    [][\A c \in ConnIds :
          (conns[c].st = "pending" /\ conns'[c].st = "open") =>
              \A m \in 1..nsends :
                  /\ (/\ m \in messageHistory
                      /\ \/ wildcard
                         \/ /\ peersLoaded /\ conns[c].peer \in peers
                            /\ UserOf(conns[c].peer) = "u1")
                        => <<m, c, conns[c].peer>> \in sent'
                  /\ m \notin messageHistory
                        => <<m, c, conns[c].peer>> \notin sent']_vars

\* ------------------------------------------------- realtime signals
\* C21: with the peer-mesh provider enabled, the create, update or delete that
\* returned has sent its event tag once if its remote call succeeded and
\* listenOnly is not set, and has sent nothing otherwise.
C21_SignalOnceAfterSuccess ==
    (result.done /\ result.kind \in {"create", "update", "delete"}) =>
        \A opts \in [enabled : BOOLEAN, peerjs : BOOLEAN, listenOnly : BOOLEAN] :
            (opts.enabled /\ opts.peerjs) =>
                SentTags(result, opts) =
                    IF result.remote = "ok" /\ ~opts.listenOnly
                    THEN <<EventTag(result.kind)>>
                    ELSE <<>>

\* C22: a realtime signal a Collection Cache receives starts a new fetch of
\* the collection and changes neither the cached page nor any entity's key;
\* the answer of that fetch, when no mutation overlaps it, replaces the page by
\* the server's page.
C22_SignalRefetches ==
    [][/\ (table /\ signals' # signals) =>
             /\ fetch' = "valid" /\ fetches' = fetches + 1
             /\ pageData' = pageData /\ pageC' = pageC
             /\ slots' = slots /\ slotsC' = slotsC
             /\ mutBusy' = mutBusy /\ ops' = ops /\ db' = db
       /\ (signals > 0 /\ fetch = "valid" /\ fetch' = "idle" /\ ~mutBusy) =>
             pageData' = ServerPage(db)]_vars

\* A signal has arrived while a request was in flight, and the fetch it
\* started has replaced a page that differed from the server's.
C22_Witness ==
    /\ table /\ signals = 1 /\ fetches = 2 /\ fetch = "idle"
    /\ pageData = ServerPage(db) /\ pageData.loaded /\ pageData.data # <<>>

\* ------------------------------------------------- teardown
\* C23: a teardown of the mesh closes every connection of the active set,
\* leaves the active set, the attempts set, the pending-data queue and the
\* message history empty, and issues one delete of the local Peer row (one for
\* each teardown: a failed delete is not repeated).
C23_TeardownClearsAndDeletes ==
    [][torn' # torn =>
          /\ \A c \in connectionsRef : conns'[c].st = "closed"
          /\ connectionsRef' = {} /\ connectionAttempts' = {}
          /\ dataQueue' = <<>> /\ messageHistory' = {}
          /\ deletes' = deletes + 1
          /\ deletes' = torn']_vars

\* C24: no 10-second timer that was pending at a teardown fires afterwards,
\* and none changes the attempts set or the message history.
C24_NoTimerAfterTeardown ==
    [][(timers # <<>> /\ Head(timers)[3] = -1) =>
          (timers' # Tail(timers) \/ torn' # torn)]_vars

\* ------------------------------------------------- the heartbeat
\* C27: a 60-second tick whose remote call succeeds refreshes updated_at of
\* the local Peer's row when the backend holds the row, and creates the row
\* again when it does not.
C27_TickRefreshesOrRecreates ==
    [][(clock' # clock /\ beat'.ok) => srvRow' = clock']_vars

\* ------------------------------------------------- reconciliation
\* C31: a pass of the connection effect that a change of the roster (the
\* 60-second refresh included) has triggered starts an outbound attempt to
\* every peer of the roster that passes the allow-list and is in neither the
\* active set nor the attempts set, a peer whose earlier attempt timed out or
\* whose connection closed included.
C31_CandidatesAttemptedAtNextPass ==
    [][(up /\ peersLoaded /\ peersChanged /\ ~peersChanged') =>
          \A p \in peers :
              (/\ Allowed(p)
               /\ p \notin ActivePeers(connectionsRef, conns)
               /\ p \notin connectionAttempts)
                  => \E c \in ConnIds : /\ conns[c].st = "none"
                                        /\ conns'[c].st = "pending"
                                        /\ conns'[c].peer = p
                                        /\ ~conns'[c].inbound]_vars

\* C32: the active set never holds two connections to one remote peer id, and
\* no peer id is in the active set and in the attempts set at once.
C32_OnePerPeerAndDisjoint ==
    /\ \A c \in connectionsRef : \A d \in connectionsRef :
           conns[c].peer = conns[d].peer => c = d
    /\ ActivePeers(connectionsRef, conns) \cap connectionAttempts = {}

\* A second connection to a peer of the active set has opened, and an attempt
\* to another peer is in flight.
C32_Witness ==
    /\ \E c \in connectionsRef : \E d \in ConnIds \ connectionsRef :
           conns[d].st = "open" /\ conns[d].peer = conns[c].peer
    /\ connectionAttempts # {}

\* C33: a connection is in the active set exactly while it is open: the close,
\* error or timeout of another connection to its peer does not take it out,
\* and no open connection is left outside the active set.
C33_ActiveIffOpen ==
    \A c \in ConnIds : (c \in connectionsRef) <=> (conns[c].st = "open")

\* C34: with a restricted allow-list the active set holds no connection, be it
\* outbound or inbound, to a peer the roster resolves to a user outside the
\* list.
C34_ActiveSetAllowedOnly ==
    ~wildcard =>
        \A c \in connectionsRef :
            (peersLoaded /\ conns[c].peer \in peers) => Allowed(conns[c].peer)

\* ------------------------------------------------- overlapping creates
\* C35: when two create calls for different entities overlap on one
\* Collection Cache and both succeed, the page holds both entities once the
\* second of them has completed.
C35_BothCreatedOnPage ==
    [][\A o \in OpIds :
          (/\ ops[o].st = "wait" /\ ops[o].kind = "create" /\ ~ops[o].alone
           /\ ops'[o].st = "idle" /\ result'.remote = "ok"
           /\ InFlight \ {o} = {}
           /\ result.done /\ result.kind = "create" /\ result.remote = "ok"
           /\ ~result.alone /\ result.id # ops[o].id)
              => /\ HasId(pageData', result.id)
                 /\ HasId(pageData', ops[o].id)]_vars

\* ------------------------------------------------- delete and the slot
\* C36: once a Collection Cache delete(id) has succeeded, whatever the params
\* of the collection, the Entity Cache key child propagation writes for
\* (table, id) does not hold the deleted entity.  Checked for a delete that no
\* other call overlapped and whose key nothing else wrote meanwhile.
C36_DeletedLeavesChildSlot ==
    [][\A o \in OpIds :
          (/\ ops[o].st = "wait" /\ ops[o].kind = "delete"
           /\ ops[o].alone /\ ~ops[o].slotRaced /\ InFlight = {o}
           /\ ops'[o].st = "idle" /\ result'.remote = "ok")
              => ~(/\ slots'[ChildKey(ops[o].id)].k = "ent"
                   /\ slots'[ChildKey(ops[o].id)].id = ops[o].id)]_vars

\* ------------------------------------------------- update and the slot
\* C37: after an Entity Cache update of an entity has succeeded and its key
\* holds the server's copy, a run of the child propagation effect of a
\* collection whose page still holds an older copy leaves the key as it is.
C37_PropagationKeepsNewerCopy ==
    [][(/\ dirty /\ ~dirty'
        /\ result.done /\ result.kind = "entUpdate" /\ result.remote = "ok"
        /\ slots[ChildKey(result.id)] = Entity(result.id, db[result.id], TRUE)
        /\ \E n \in 1..Len(pageData.data) :
               /\ pageData.data[n].id = result.id
               /\ pageData.data[n] # slots[ChildKey(result.id)])
          => slots'[ChildKey(result.id)] = slots[ChildKey(result.id)]]_vars

\* ------------------------------------------------- realtime wiring
\* C38: a Collection Cache whose realtimeOptions.enabled is false or omitted
\* creates no Peer (and so no Peer row and no mesh connection) and subscribes
\* to no channel, whichever provider is named.
C38_NoRealtimeUnlessEnabled ==
    rtOpts.enabled # "true" => (~rtMesh /\ rtChannel = <<>>)

\* C39: with the pub/sub provider enabled and no room override, the channel a
\* Collection Cache subscribes to is the channel the server broadcasts on for
\* an entity of its table that matches its query.  Checked where the schema
\* and the collection agree: no filter and a table-wide broadcast, or a filter
\* on the column the schema names as realtimeIdentifier.
C39_ChannelMatchesServer ==
    (/\ rtOpts.enabled = "true" /\ rtOpts.provider = "supabase"
     /\ rRoomOpt = Null /\ rtChannel # <<>>
     /\ srvEvent.made /\ srvEvent.table = rTable
     /\ LET filter == RoomNameParams(rParams).entries
        IN  \/ filter = <<>> /\ srvEvent.schema = "table"
            \/ /\ filter = <<<<"q", srvEvent.q>>>>
               /\ srvEvent.schema = "byQ")
        => srvEvent.room = rtChannel

\* ------------------------------------------ pages of an Infinite Collection
\* C40: successive pages of an Infinite Collection cover the result set
\* without gaps or overlaps: the request for page i >= 1 addresses the same
\* table and filters as page 0, its offset is i times the limit page i-1
\* reported, and when page i-1 has has_more that offset is the offset of page
\* i-1 plus the number of entities page i-1 returned.
C40_PagesCoverResultSet ==
    [][(pgKey.index >= 0 /\ pgKey'.index = pgKey.index + 1)
          => /\ pgKey'.query.entities = ParseKey(pgKey.url).entities
             /\ pgKey'.query.limit = ParseKey(pgKey.url).limit
             /\ pgKey'.query.offset = JsStr(pgKey'.index * pgPage.limit.n)
             /\ (pgPage.has_more
                    => pgKey'.query.offset.n = pgPage.offset.n + pgPage.data)]_vars

====
